---- MODULE Spec2Model ----
(***************************************************************************)
(* A model of yBuster (a gobuster 2.0.1 fork): the enumeration scheduler   *)
(* (Gobuster.Start / Gobuster.worker and the consumers of main),           *)
(* the Directory plugin (Setup, Process, ResultToString) and its wildcard  *)
(* signature.                                                              *)
(*                                                                         *)
(* Strings are sequences of tokens.  A token is a TLA+ string standing for *)
(* a run of bytes whose length is TokLen(token); substring operations work *)
(* on token boundaries.                                                    *)
(***************************************************************************)
EXTENDS Integers, Sequences, FiniteSets, Bags, TLC

\* Bounds of the model.
MaxThreads == 2
MaxLines == 4
MaxCorpus == 3
MaxExts == 2

(***************************************************************************)
(* Strings                                                                 *)
(***************************************************************************)

\* Byte length of a token: the HTML tags, the random parts of the four
\* calibration URLs (part_001:31,44,75,88) and one byte for anything else.
TokLen(t) ==
  CASE t = "<title>" -> 7
    [] t = "</title>" -> 8
    [] t = "uuidFile16" -> 16
    [] t = "uuidFile8" -> 8
    [] t = "uuidDir15" -> 15
    [] t = "uuidDir7" -> 7
    [] t = "http://h/" -> 9
    [] t = "http://g/" -> 9
    [] t = "https://h/" -> 10
    [] t = "%EXT%" -> 5
    [] OTHER -> 1

RECURSIVE StrLen(_)
\* len(s) of Go: the number of bytes.
StrLen(s) == IF s = <<>> THEN 0 ELSE TokLen(Head(s)) + StrLen(Tail(s))

\* p occurs in s at position i.
PrefixAt(s, i, p) ==
  /\ i + Len(p) - 1 <= Len(s)
  /\ \A k \in 1..Len(p) : s[i + k - 1] = p[k]

HasPrefix(s, p) == PrefixAt(s, 1, p)

HasSuffix(s, p) == Len(p) <= Len(s) /\ PrefixAt(s, Len(s) - Len(p) + 1, p)

Contains(s, p) == \E i \in 1..(Len(s) + 1) : PrefixAt(s, i, p)

TrimPrefix(s, p) == IF HasPrefix(s, p) THEN SubSeq(s, Len(p) + 1, Len(s)) ELSE s

RECURSIVE ReplaceFrom(_, _, _, _)
ReplaceFrom(s, i, old, new) ==
  IF i > Len(s) THEN <<>>
  ELSE IF PrefixAt(s, i, old)
       THEN new \o ReplaceFrom(s, i + Len(old), old, new)
       ELSE <<s[i]>> \o ReplaceFrom(s, i + 1, old, new)

\* strings.ReplaceAll: the non-overlapping occurrences of old, left to right.
\* Every call of the program with a possibly empty old has new = "", where
\* Go returns s unchanged.
ReplaceAll(s, old, new) == IF old = <<>> THEN s ELSE ReplaceFrom(s, 1, old, new)

IsSpace(t) == t \in {" ", "\n", "\t"}

RECURSIVE TrimLeft(_)
TrimLeft(s) == IF s # <<>> /\ IsSpace(Head(s)) THEN TrimLeft(Tail(s)) ELSE s

RECURSIVE TrimRight(_)
TrimRight(s) ==
  IF s # <<>> /\ IsSpace(s[Len(s)]) THEN TrimRight(SubSeq(s, 1, Len(s) - 1)) ELSE s

\* strings.TrimSpace
TrimSpace(s) == TrimRight(TrimLeft(s))

\* The regular expression (?s).*<title>(?P<Title>.*)<\/title>.* of
\* Setup and ResultToString, matched by FindStringSubmatch: leftmost-first
\* with greedy stars, so the group starts after the last <title> that has a
\* </title> behind it and ends before the last </title>.
TitleCloses(s) == {j \in 1..Len(s) : s[j] = "</title>"}
LastClose(s) == CHOOSE j \in TitleCloses(s) : \A k \in TitleCloses(s) : k <= j
TitleOpens(s) == {i \in 1..Len(s) : s[i] = "<title>" /\ \E j \in TitleCloses(s) : i < j}
LastOpen(s) == CHOOSE i \in TitleOpens(s) : \A k \in TitleOpens(s) : k <= i

\* len(rs) > 0
TitleMatches(s) == TitleOpens(s) # {}

\* cleanTitle: strings.TrimSpace(rs[1]) when the expression matches, else "".
CleanTitle(s) ==
  IF TitleMatches(s) THEN TrimSpace(SubSeq(s, LastOpen(s) + 1, LastClose(s) - 1)) ELSE <<>>

(***************************************************************************)
(* The Directory plugin: calibration (Setup), one probe (Process) and the  *)
(* rendering and classification of a Result (ResultToString).              *)
(***************************************************************************)

\* g.Opts.URL after Options.validate: it ends in "/".
BaseURL == <<"http://h/">>

\* The four calibration URLs of Setup: g.Opts.URL followed by 16 or 8
\* characters of a UUID (file scope), or 15 or 7 and "/" (directory scope).
ProbeNames == {"File16", "File8", "Dir16", "Dir8"}

ProbeURL(base, name) ==
  CASE name = "File16" -> base \o <<"uuidFile16">>
    [] name = "File8" -> base \o <<"uuidFile8">>
    [] name = "Dir16" -> base \o <<"uuidDir15", "/">>
    [] name = "Dir8" -> base \o <<"uuidDir7", "/">>

\* The wildcard fields of a new Gobuster: Go's zero values, and the nil
\* pointer WildcardStatusCode as the empty sequence (<<v>> points to v).
NoWildcard ==
  [ WildcardStatusCode |-> <<>>,
    IsWildcardFileByTitle |-> FALSE, WildcardFileTitle |-> <<>>,
    IsWildcardFileByContentLength |-> FALSE, WildcardFileContentLength |-> 0,
    IsWildcardDirByTitle |-> FALSE, WildcardDirTitle |-> <<>>,
    IsWildcardDirByContentLength |-> FALSE, WildcardDirContentLength |-> 0 ]

\* Setup's comparison of the two probes of the file scope (part_001:57-73).
SetupFileScope(w, base, p) ==
  LET r16 == p["File16"]
      r8 == p["File8"]
      clean16 == ReplaceAll(r16.Content, ProbeURL(base, "File16"), <<>>)
      clean8 == ReplaceAll(r8.Content, ProbeURL(base, "File8"), <<>>)
      title16 == CleanTitle(r16.Content)
      title8 == CleanTitle(r8.Content)
  IN IF r16.Status = r8.Status
     THEN IF title16 # <<>> /\ title16 = title8
          THEN [w EXCEPT !.WildcardStatusCode = <<r16.Status>>,
                         !.IsWildcardFileByTitle = TRUE,
                         !.WildcardFileTitle = title16]
          ELSE IF StrLen(clean16) = StrLen(clean8)
          THEN [w EXCEPT !.WildcardStatusCode = <<r16.Status>>,
                         !.IsWildcardFileByContentLength = TRUE,
                         !.WildcardFileContentLength = StrLen(clean16)]
          ELSE [w EXCEPT !.WildcardStatusCode = <<r16.Status>>]
     ELSE w

\* Setup's comparison of the two probes of the directory scope
\* (part_001:101-117): it assigns the same g.WildcardStatusCode.
SetupDirScope(w, base, p) ==
  LET r16 == p["Dir16"]
      r8 == p["Dir8"]
      clean16 == ReplaceAll(r16.Content, ProbeURL(base, "Dir16"), <<>>)
      clean8 == ReplaceAll(r8.Content, ProbeURL(base, "Dir8"), <<>>)
      title16 == CleanTitle(r16.Content)
      title8 == CleanTitle(r8.Content)
  IN IF r16.Status = r8.Status
     THEN IF title16 # <<>> /\ title16 = title8
          THEN [w EXCEPT !.WildcardStatusCode = <<r16.Status>>,
                         !.IsWildcardDirByTitle = TRUE,
                         !.WildcardDirTitle = title16]
          ELSE IF StrLen(clean16) = StrLen(clean8)
          THEN [w EXCEPT !.WildcardStatusCode = <<r16.Status>>,
                         !.IsWildcardDirByContentLength = TRUE,
                         !.WildcardDirContentLength = StrLen(clean16)]
          ELSE [w EXCEPT !.WildcardStatusCode = <<r16.Status>>]
     ELSE w

\* A Setup that goes on when a request of the directory scope fails.
SetupIgnoringDirFailure(w, base, p, failAt) ==
  IF failAt = 1 THEN [err |-> TRUE, w |-> w]
  ELSE LET w0 == [w EXCEPT !.WildcardStatusCode = <<0>>]
       IN IF failAt \in {2, 3} THEN [err |-> TRUE, w |-> w0]
          ELSE [err |-> FALSE, w |-> SetupDirScope(SetupFileScope(w0, base, p), base, p)]

\* GobusterDir.Setup on the wildcard fields w.  The requests are issued in
\* the order base, File16, File8, Dir16, Dir8; failAt names the request that
\* fails (1..5), 0 when none does.  A failure returns at once, with what was
\* assigned before it.
Setup(w, base, p, failAt) ==
  IF failAt = 1 THEN [err |-> TRUE, w |-> w]
  ELSE LET w0 == [w EXCEPT !.WildcardStatusCode = <<0>>]
       IN IF failAt \in {2, 3} THEN [err |-> TRUE, w |-> w0]
          ELSE LET w1 == SetupFileScope(w0, base, p)
               IN IF failAt \in {4, 5} THEN [err |-> TRUE, w |-> w1]
                  ELSE [err |-> FALSE, w |-> SetupDirScope(w1, base, p)]

\* A classification by the stored status alone where the scope has no flag.
IsFalsePositiveByStatus(w, o, r) ==
  LET isDir == HasSuffix(r.Entity, <<"/">>)
  IN /\ r.Status = w.WildcardStatusCode[1]
     /\ IF isDir
        THEN ~w.IsWildcardDirByTitle /\ ~w.IsWildcardDirByContentLength
        ELSE ~w.IsWildcardFileByTitle /\ ~w.IsWildcardFileByContentLength

\* isFalsePositive of ResultToString (part_001:170-216).  The caller runs
\* after a successful Setup, so *g.WildcardStatusCode is not a nil pointer.
IsFalsePositive(w, o, r) ==
  LET isDir == HasSuffix(r.Entity, <<"/">>)
      entity == IF r.IsEntityURL THEN r.Entity ELSE o.URL \o r.Entity
      cleanLen == StrLen(ReplaceAll(r.Content, entity, <<>>))
  IN /\ r.Status = w.WildcardStatusCode[1]
     /\ IF isDir
        THEN IF w.IsWildcardDirByTitle
             THEN TitleMatches(r.Content) /\ CleanTitle(r.Content) = w.WildcardDirTitle
             ELSE w.IsWildcardDirByContentLength /\ cleanLen = w.WildcardDirContentLength
        ELSE IF w.IsWildcardFileByTitle
             THEN TitleMatches(r.Content) /\ CleanTitle(r.Content) = w.WildcardFileTitle
             ELSE w.IsWildcardFileByContentLength /\ cleanLen = w.WildcardFileContentLength

\* One piece of an output line: a text or a formatted number.
Txt(s) == [t |-> s, n |-> 0]
Num(k) == [t |-> "%d", n |-> k]

\* url.Parse of an entity that is a URL, then the removal of every
\* "scheme://host/" from it (part_001:292-299).  A URL starts with one token
\* holding its scheme and host.
IsSchemeHost(t) == t \in {"http://h/", "http://g/"}

StripSchemeHost(entity) ==
  IF entity # <<>> /\ IsSchemeHost(Head(entity))
  THEN ReplaceAll(entity, <<Head(entity)>>, <<>>)
  ELSE entity

\* A prefix that calls an excluded Result found.
VerbosePrefixFound(o, fp, excluded, hasExcludeString) ==
  IF ~o.Verbose THEN <<>>
  ELSE IF fp THEN <<Txt(<<"FALSE POSITIVE">>)>>
  ELSE <<Txt(<<"FOUND">>)>>

\* The prefix of the display line in verbose mode (part_001:223-238).
VerbosePrefix(o, fp, excluded, hasExcludeString) ==
  IF ~o.Verbose THEN <<>>
  ELSE IF fp THEN <<Txt(<<"FALSE POSITIVE">>)>>
  ELSE IF ~excluded /\ ~hasExcludeString THEN <<Txt(<<"FOUND">>)>>
  ELSE <<Txt(<<"MISSED">>)>>

\* The condition under which the rest of the display line and the archive
\* line are written (part_001:241).
LineWritten(o, fp, excluded, hasExcludeString) ==
  (~excluded /\ ~fp /\ ~hasExcludeString) \/ o.Verbose

\* GobusterDir.ResultToString: the display line, the archive line and the
\* status.  It returns no error (writes to a bytes.Buffer do not fail).
ResultToString(w, o, r) ==
  LET fp == IsFalsePositive(w, o, r)
      excluded == r.Status \in o.ExcludedStatusCodesParsed
      hasExcludeString == o.ExcludeString # <<>> /\ Contains(r.Content, o.ExcludeString)
      label == VerbosePrefix(o, fp, excluded, hasExcludeString)
      shown == LineWritten(o, fp, excluded, hasExcludeString)
      redirect == IF r.RedirectURL # <<>>
                  THEN <<Txt(<<"  ->  ">>), Txt(r.RedirectURL)>> ELSE <<>>
      target == IF r.IsEntityURL THEN r.Entity ELSE o.URL \o r.Entity
      archived == IF r.IsEntityURL THEN StripSchemeHost(r.Entity) ELSE r.Entity
  IN [ isFalsePositive |-> fp,
       s |-> IF shown
             THEN label \o <<Txt(<<"[time]">>), Num(r.Status), Num(r.Size), Txt(target)>>
                        \o redirect \o <<Txt(<<"\n">>)>>
             ELSE label,
       as |-> IF shown
              THEN <<Txt(<<"[date]">>), Txt(<<"/">> \o archived), Num(r.Status)>>
                      \o redirect \o <<Txt(<<"\n">>)>>
              ELSE <<>>,
       status |-> r.Status,
       err |-> FALSE ]

\* The transport of the scheduler runs: what httpClient.makeRequest returns
\* for a URL, the same at every request.  Hosts that are down fail; known
\* paths answer 200 or 301; everything else gets the server's 404 page.
NotFoundPage == <<"<title>", "Not Found", "</title>">>

Transport(url) ==
  IF Contains(url, <<"down">>)
  THEN [err |-> TRUE, Status |-> 0, Content |-> <<>>, RedirectURL |-> <<>>]
  ELSE IF Contains(url, <<"admin">>)
  THEN [err |-> FALSE, Status |-> 200,
        Content |-> <<"<title>", "Admin", "</title>">>, RedirectURL |-> <<>>]
  ELSE IF Contains(url, <<"php">>)
  THEN [err |-> FALSE, Status |-> 200, Content |-> <<"ok">>, RedirectURL |-> <<>>]
  ELSE IF Contains(url, <<"old">>)
  THEN [err |-> FALSE, Status |-> 301, Content |-> <<>>,
        RedirectURL |-> BaseURL \o <<"new">>]
  ELSE [err |-> FALSE, Status |-> 404, Content |-> NotFoundPage, RedirectURL |-> <<>>]

\* GobusterDir.Process for the target bt given the transport's answer resp
\* to the one GET it issues: an error, or exactly one Result.
ProcessURL(o, bt) ==
  IF bt.IsURL THEN bt.Target
  ELSE o.URL \o TrimPrefix(bt.Target, <<"/">>) \o (IF o.UseSlash THEN <<"/">> ELSE <<>>)

Process(o, bt, resp) ==
  IF resp.err THEN [err |-> TRUE, res |-> <<>>]
  ELSE [err |-> FALSE,
        res |-> << [ Entity |-> IF bt.IsURL THEN bt.Target
                                ELSE TrimPrefix(bt.Target, <<"/">>)
                                       \o (IF o.UseSlash THEN <<"/">> ELSE <<>>),
                     Status |-> resp.Status,
                     Size |-> StrLen(resp.Content),
                     Content |-> resp.Content,
                     IsEntityURL |-> bt.IsURL,
                     RedirectURL |-> resp.RedirectURL ] >>]

(***************************************************************************)
(* The URL dedup engine: Gobuster.parseWaybackUrls (result.go:305-433)     *)
(***************************************************************************)

\* The tokens of the lines of a wayback file, in the byte order of their
\* text.  No token is a prefix of another, so the order of the first tokens
\* that differ is the byte order of two lines.
TokenOrder ==
  << "#", "%zz", "&", ".css", ".jpg", "/", "1", "2", "=", "?", "down", "http://g/",
     "http://h/", "https://h/", "i", "k", "m", "old", "p", "q", "s" >>

TokRank(t) == CHOOSE i \in 1..Len(TokenOrder) : TokenOrder[i] = t

RECURSIVE StringLess(_, _)
\* s < t of Go strings.
StringLess(s, t) ==
  IF t = <<>> THEN FALSE
  ELSE IF s = <<>> THEN TRUE
  ELSE IF Head(s) = Head(t) THEN StringLess(Tail(s), Tail(t))
  ELSE TokRank(Head(s)) < TokRank(Head(t))

RECURSIVE InsertSorted(_, _)
InsertSorted(sorted, x) ==
  IF sorted = <<>> THEN <<x>>
  ELSE IF StringLess(x, Head(sorted)) THEN <<x>> \o sorted
  ELSE <<Head(sorted)>> \o InsertSorted(Tail(sorted), x)

RECURSIVE SortStrings(_)
\* sort.Strings (result.go:332).
SortStrings(lines) ==
  IF lines = <<>> THEN <<>>
  ELSE InsertSorted(SortStrings(SubSeq(lines, 1, Len(lines) - 1)), lines[Len(lines)])

\* The position of the first token t of s, Len(s) + 1 when there is none.
IndexOf(s, t) ==
  IF \E i \in 1..Len(s) : s[i] = t
  THEN CHOOSE i \in 1..Len(s) : s[i] = t /\ \A j \in 1..(i - 1) : s[j] # t
  ELSE Len(s) + 1

\* url.Parse (result.go:338): the fragment is cut off at the first "#", the
\* query at the first "?", and an invalid escape before them is an error.
NoFragment(line) == SubSeq(line, 1, IndexOf(line, "#") - 1)
BeforeQuery(line) == SubSeq(NoFragment(line), 1, IndexOf(NoFragment(line), "?") - 1)
RawQuery(line) == SubSeq(NoFragment(line), IndexOf(NoFragment(line), "?") + 1, Len(NoFragment(line)))
ParseFails(line) == \E i \in 1..Len(BeforeQuery(line)) : BeforeQuery(line)[i] = "%zz"

\* u.Host: the scheme is not part of it.
HostOf(t) ==
  CASE t = "http://h/" -> <<"h">>
    [] t = "https://h/" -> <<"h">>
    [] t = "http://g/" -> <<"g">>

IsURLStart(line) == line # <<>> /\ Head(line) \in {"http://h/", "https://h/", "http://g/"}

URLHost(line) == IF IsURLStart(line) THEN HostOf(Head(line)) ELSE <<>>

\* u.Path: what follows the host, with the "/" that ends the host.
URLPath(line) ==
  IF IsURLStart(line) THEN <<"/">> \o Tail(BeforeQuery(line)) ELSE BeforeQuery(line)

RECURSIVE Split(_, _)
\* strings.Split(s, sep) for a separator of one token.
Split(s, sep) ==
  IF IndexOf(s, sep) > Len(s) THEN <<s>>
  ELSE <<SubSeq(s, 1, IndexOf(s, sep) - 1)>> \o Split(SubSeq(s, IndexOf(s, sep) + 1, Len(s)), sep)

\* The keys of u.Query(): of every non-empty "key=value" between "&", what
\* precedes the first "=".
QueryKeys(line) ==
  LET pairs == Split(RawQuery(line), "&")
  IN {SubSeq(pairs[i], 1, IndexOf(pairs[i], "=") - 1) : i \in {j \in 1..Len(pairs) : pairs[j] # <<>>}}

\* The extensions of the static assets (two of the alternatives of the
\* expression of result.go:353).
AssetExtensions == {".jpg", ".css"}

\* A token with a "/" in it.
HasSlash(t) == t \in {"/", "http://h/", "https://h/", "http://g/"}

\* Where the expression [^/]+\.(jpg|...).* matches in s: at a token that
\* starts a run without "/" which reaches an extension.
AssetMatches(s) ==
  {i \in 1..Len(s) : \E j \in (i + 1)..Len(s) :
     /\ s[j] \in AssetExtensions
     /\ \A k \in i..(j - 1) : ~HasSlash(s[k])}

\* rgx.ReplaceAllString(s, "") (result.go:354-355): the leftmost match runs
\* to the end of s.
RemoveAsset(s) ==
  IF AssetMatches(s) = {} THEN s
  ELSE SubSeq(s, 1, (CHOOSE m \in AssetMatches(s) : \A n \in AssetMatches(s) : m <= n) - 1)

\* The ParsedURL of a line (result.go:337-362).
ParsedURL(line) ==
  [ Host |-> IF ParseFails(line) THEN line ELSE URLHost(line),
    Path |-> RemoveAsset(IF ParseFails(line) THEN <<>> ELSE URLPath(line)),
    Query |-> IF ParseFails(line) THEN {} ELSE QueryKeys(line),
    URL |-> RemoveAsset(line) ]

\* Query keys compared by inclusion alone.
QueryIncluded(value, parsedURL) ==
  \A key \in parsedURL.Query : key \in value.Query

\* isQueryMatching of result.go:373-387, for a kept value of the same host
\* and path.
QueryMatching(value, parsedURL) ==
  IF Cardinality(parsedURL.Query) > 0 /\ Cardinality(value.Query) = Cardinality(parsedURL.Query)
  THEN \A key \in parsedURL.Query : key \in value.Query
  ELSE Cardinality(value.Query) = 0 /\ Cardinality(parsedURL.Query) = 0

\* isURLMatching of result.go:371-393.
URLMatching(uniqueParsedUrls, parsedURL) ==
  \E i \in 1..Len(uniqueParsedUrls) :
     /\ uniqueParsedUrls[i].Host = parsedURL.Host
     /\ uniqueParsedUrls[i].Path = parsedURL.Path
     /\ QueryMatching(uniqueParsedUrls[i], parsedURL)

RECURSIVE UniqueParsedUrls(_)
\* The loop of result.go:365-397 over the first n parsed lines.
UniqueParsedUrls(parsedUrls) ==
  IF parsedUrls = <<>> THEN <<>>
  ELSE LET kept == UniqueParsedUrls(SubSeq(parsedUrls, 1, Len(parsedUrls) - 1))
           parsedURL == parsedUrls[Len(parsedUrls)]
       IN IF URLMatching(kept, parsedURL) THEN kept ELSE Append(kept, parsedURL)

\* The ParsedURLs kept for a file of these lines (result.go:332-397).
UniqueOf(lines) ==
  LET waybackLines == SortStrings(lines)
  IN UniqueParsedUrls([i \in 1..Len(waybackLines) |-> ParsedURL(waybackLines[i])])

\* uniqueUrls (result.go:399-402), the lines written to g.waybackParsed.
ParseWaybackUrls(lines) ==
  [i \in 1..Len(UniqueOf(lines)) |-> UniqueOf(lines)[i].URL]

(***************************************************************************)
(* The scheduler: Gobuster.Start (the producer), Gobuster.worker, and the  *)
(* goroutines of main (errorWorker, resultWorker, the signal handler).     *)
(***************************************************************************)

VARIABLES
  opts,              \* g.Opts, and the lines of the files it names
  probes,            \* the answers to the four calibration requests
  wildcard,          \* the wildcard fields of g
  requestsExpected,  \* g.requestsExpected
  requestsIssued,    \* g.requestsIssued
  errorCount,        \* g.errorCount
  mu,                \* who holds g.mu: "free", "worker" or "errorWorker"
  userAgent,         \* g.HTTP.UserAgent
  ctxDone,           \* g.context is cancelled
  wordChan,          \* the buffer of wordChan (capacity g.Opts.Threads)
  wordChanClosed,    \* close(wordChan) was called
  resultChanCloses,  \* how often close(g.resultChan) was called
  errorChanCloses,   \* how often close(g.errorChan) was called
  startPc,           \* where Start is
  scanIdx,           \* lines the current scanner has returned
  pend,              \* targets of the current line still to be sent
  worker,            \* the bag of the workers' states: where each is, its
                     \* target, its results (goroutines have no identity)
  workerGroup,       \* the counter of the sync.WaitGroup of Start
  errorWorkerPc,     \* where errorWorker is
  resultWorkerPc,    \* where resultWorker is
  mainPc,            \* where main is
  enqueued,          \* history: every target sent into wordChan, in order
  processed,         \* history: per target, the calls of plugin.Process
  outcome,           \* history: per target, what plugin.Process returned
  resultsSeen,       \* history: per target, the Results resultWorker received
  errorsSeen,        \* history: per target, the errors errorWorker received
  call               \* the last call of ResultToString outside a run

vars == << opts, probes, wildcard, requestsExpected, requestsIssued, errorCount,
           mu, userAgent, ctxDone, wordChan, wordChanClosed, resultChanCloses, errorChanCloses,
           startPc, scanIdx, pend, worker, workerGroup, errorWorkerPc,
           resultWorkerPc, mainPc, enqueued, processed, outcome, resultsSeen, errorsSeen, call >>

inputVars == << opts, probes, call >>
counterVars == << requestsExpected, requestsIssued, errorCount, mu >>
pluginVars == << wildcard, userAgent >>
chanVars == << wordChan, wordChanClosed, resultChanCloses, errorChanCloses >>
producerVars == << startPc, scanIdx, pend >>
consumerVars == << errorWorkerPc, resultWorkerPc >>
historyVars == << enqueued, processed, outcome, resultsSeen, errorsSeen >>

\* The states the workers are in.
Workers == BagToSet(worker)

\* The bag of workers after one worker in state ws went to state new.
Move(ws, new) == (worker (-) SetToBag({ws})) (+) SetToBag({new})

\* The process is alive: main has not returned.
Running == mainPc # "finished"

\* A worker that holds no target.
NoTarget == [id |-> 0, IsURL |-> FALSE, Target |-> <<>>]
Blocked(pc) ==
  [pc |-> pc, bt |-> NoTarget, doomed |-> FALSE, res |-> <<>>, agent |-> <<>>]

\* The permutations of a set: the orders in which Go may range over a map.
Perms(S) ==
  {q \in [1..Cardinality(S) -> S] : \A i, j \in 1..Cardinality(S) : q[i] = q[j] => i = j}

\* A producer that sends the variant without extension whether or not
\* BlankExtension is set.
WordTargetsBlankAlways(o, line, exts) ==
  LET word == TrimSpace(line)
  IN IF HasPrefix(word, <<"#">>) \/ Len(word) = 0 THEN <<>>
     ELSE IF Contains(word, <<"%EXT%">>)
     THEN <<[IsURL |-> FALSE, Target |-> ReplaceAll(word, <<".", "%EXT%">>, <<>>)]>>
          \o [i \in 1..Len(exts) |->
                [IsURL |-> FALSE, Target |-> ReplaceAll(word, <<"%EXT%">>, <<exts[i]>>)]]
     ELSE <<[IsURL |-> FALSE, Target |-> word]>>

\* The targets Start sends for one line of the wordlist (result.go:496-523),
\* with the extensions taken in the order exts.
WordTargets(o, line, exts) ==
  LET word == TrimSpace(line)
  IN IF HasPrefix(word, <<"#">>) \/ Len(word) = 0 THEN <<>>
     ELSE IF Contains(word, <<"%EXT%">>)
     THEN (IF o.BlankExtension
           THEN <<[IsURL |-> FALSE, Target |-> ReplaceAll(word, <<".", "%EXT%">>, <<>>)]>>
           ELSE <<>>)
          \o [i \in 1..Len(exts) |->
                [IsURL |-> FALSE, Target |-> ReplaceAll(word, <<"%EXT%">>, <<exts[i]>>)]]
     ELSE <<[IsURL |-> FALSE, Target |-> word]>>

\* The target Start sends for one line of the parsed wayback file
\* (result.go:467-475).
WaybackTargets(line) ==
  LET url == TrimSpace(line)
  IN IF ~HasPrefix(url, <<"#">>) /\ Len(url) > 0
     THEN <<[IsURL |-> TRUE, Target |-> url]>>
     ELSE <<>>

\* The lines of a file that are not empty after strings.TrimSpace, and
\* those of them that hold the placeholder.
NonBlank(lines) == {i \in 1..Len(lines) : TrimSpace(lines[i]) # <<>>}
HasPlaceholder(lines) == {i \in NonBlank(lines) : Contains(TrimSpace(lines[i]), <<"%EXT%">>)}

\* g.requestsExpected as getWordlist computes it (result.go:238-260).
WordlistExpected(o) ==
  LET lines == Cardinality(NonBlank(o.Wordlist))
      wordExtensionCount == Cardinality(HasPlaceholder(o.Wordlist))
  IN IF o.BlankExtension
     THEN lines + wordExtensionCount * Cardinality(o.ExtensionsParsed)
     ELSE lines + wordExtensionCount * Cardinality(o.ExtensionsParsed) - wordExtensionCount

\* g.requestsExpected as getWaybackUrls computes it (result.go:281-294).
WaybackExpected(o) == Cardinality(NonBlank(o.WaybackParsed))

\* The runs checked.  A wordlist is a sequence of lines: words the server
\* knows ("admin"), words whose request fails ("down"), words with the
\* extension placeholder, comments.
PlainLines == { <<"admin">>, <<"down">> }

\* The wordlists of one or two plain lines, and those of up to MaxLines
\* lines in which a word the server knows and a word whose request fails
\* alternate.
PlainWordlists ==
  {[i \in 1..n |-> ab[i]] : n \in 1..2, ab \in PlainLines \X PlainLines}
    \cup {[i \in 1..n |-> IF i % 2 = 1 THEN <<"admin">> ELSE <<"down">>] : n \in 3..MaxLines}

ExpandingWordlists == { << <<"p", ".", "%EXT%">> >>, << <<"#", "c">>, <<" ", "p", ".", "%EXT%">> >> }

\* The wayback files of the runs: one URL, and a URL before a comment.
WaybackFiles == { << <<"http://h/", "old">> >>, << <<"http://h/", "down">>, <<"#">> >> }

Options(t, be, wl, wb) ==
  [ Threads |-> t, URL |-> BaseURL, UseSlash |-> FALSE, Verbose |-> FALSE,
    ExcludedStatusCodesParsed |-> {}, ExcludeString |-> <<>>,
    ExtensionsParsed |-> {"php"}, BlankExtension |-> be,
    UserAgent |-> <<>>, RandomAgentParsed |-> <<>>,
    Wordlist |-> wl,
    WaybackUrls |-> wb,
    WaybackParsed |-> ParseWaybackUrls(wb) ]

\* Wordlist-only runs, runs whose words expand, and runs that enumerate a
\* parsed wayback file before a one-line wordlist.
RunOptions ==
  {Options(t, FALSE, wl, <<>>) : t \in 1..MaxThreads, wl \in PlainWordlists}
    \cup {Options(c[1], c[2], wl, <<>>) :
            c \in (1..MaxThreads) \X BOOLEAN, wl \in ExpandingWordlists}
    \cup {Options(c[1], FALSE, <<c[2]>>, wb) :
            c \in (1..MaxThreads) \X PlainLines, wb \in WaybackFiles}

NoCall == [made |-> FALSE]

Init ==
  /\ opts \in RunOptions
  /\ probes = [n \in ProbeNames |-> Transport(ProbeURL(opts.URL, n))]
  /\ wildcard = NoWildcard
  /\ requestsExpected = 0
  /\ requestsIssued = 0
  /\ errorCount = 0
  /\ mu = "free"
  /\ userAgent = opts.UserAgent
  /\ ctxDone = FALSE
  /\ wordChan = <<>>
  /\ wordChanClosed = FALSE
  /\ resultChanCloses = 0
  /\ errorChanCloses = 0
  /\ startPc = "Setup"
  /\ scanIdx = 0
  /\ pend = <<>>
  /\ worker = EmptyBag
  /\ workerGroup = 0
  /\ errorWorkerPc = "recv"
  /\ resultWorkerPc = "recv"
  /\ mainPc = "Start"
  /\ enqueued = <<>>
  /\ processed = <<>>
  /\ outcome = <<>>
  /\ resultsSeen = <<>>
  /\ errorsSeen = <<>>
  /\ call = NoCall

(***************************************************************************)
(* Gobuster.Start                                                          *)
(***************************************************************************)

\* A Start that has started its workers when Setup runs.
StartSetupAmongWorkers ==
  /\ Running /\ startPc = "Setup"
  /\ \E failAt \in 0..5 :
       LET ret == Setup(wildcard, opts.URL, probes, failAt)
       IN /\ wildcard' = ret.w
          /\ startPc' = IF ret.err THEN "returnedErr" ELSE "Spawn"
  /\ worker' = [ws \in {Blocked("select")} |-> 1]
  /\ UNCHANGED << inputVars, userAgent, counterVars, ctxDone, chanVars, scanIdx, pend,
                  workerGroup, consumerVars, mainPc, historyVars >>

\* result.go:438-440: g.plugin.Setup(g); its error is returned.
StartSetup ==
  /\ Running /\ startPc = "Setup"
  /\ \E failAt \in 0..5 :
       LET ret == Setup(wildcard, opts.URL, probes, failAt)
       IN /\ wildcard' = ret.w
          /\ startPc' = IF ret.err THEN "returnedErr" ELSE "Spawn"
  /\ UNCHANGED << inputVars, userAgent, counterVars, ctxDone, chanVars, scanIdx, pend, worker,
                  workerGroup, consumerVars, mainPc, historyVars >>

\* How many workers Start spawns (result.go:443,449).
SpawnCount(o) == o.Threads

\* A queue with one slot more than there are workers.
WordChanCapPlusOne(o) == o.Threads + 1

\* The capacity of wordChan (result.go:445).
WordChanCap(o) == o.Threads

\* result.go:442-453: the WaitGroup, wordChan and the worker goroutines.
StartSpawn ==
  /\ Running /\ startPc = "Spawn"
  /\ workerGroup' = opts.Threads
  /\ worker' = IF SpawnCount(opts) > 0
               THEN [ws \in {Blocked("select")} |-> SpawnCount(opts)]
               ELSE EmptyBag
  /\ startPc' = IF opts.WaybackUrls # <<>> THEN "GetWaybackUrls" ELSE "GetWordlist"
  /\ UNCHANGED << inputVars, pluginVars, counterVars, ctxDone, chanVars, scanIdx, pend,
                  consumerVars, mainPc, historyVars >>

\* What g.requestsIssued = 0 (result.go:255, 295), written without g.mu,
\* leaves in the counter whose value is v: 0, or, when the write races with
\* an update under the lock that had read the counter already, what that
\* update is about to put back.
UnlockedReset(v) == IF mu = "free" THEN {0} ELSE {0, v}

\* Start going on to the candidates of the file whatever getWaybackUrls
\* returned.
AfterGetWaybackUrlsIgnoringError(io) == "WaybackScan"

\* result.go:454-457: an error of getWaybackUrls is returned.
AfterGetWaybackUrls(io) == IF io = "ok" THEN "WaybackScan" ELSE "returnedErr"

\* result.go:454-457 and getWaybackUrls: "before" is a failure to parse, open
\* or scan the file, "after" a failure to rewind it.
StartGetWaybackUrls ==
  /\ Running /\ startPc = "GetWaybackUrls"
  /\ \E io \in {"ok", "before", "after"} :
       /\ IF io = "before"
          THEN UNCHANGED << requestsExpected, requestsIssued >>
          ELSE /\ requestsExpected' = WaybackExpected(opts)
               /\ requestsIssued' \in UnlockedReset(requestsIssued)
       /\ startPc' = AfterGetWaybackUrls(io)
  /\ scanIdx' = 0
  /\ UNCHANGED << inputVars, pluginVars, errorCount, mu, ctxDone, chanVars, pend, worker,
                  workerGroup, consumerVars, mainPc, historyVars >>

\* One turn of the loop over the lines of a file (result.go:462-477 and
\* 491-525): Scan returns the next line or ends the loop; a cancelled
\* context breaks out of it; otherwise the targets of the line read, here
\* targets, are to be sent.
ScanLine(lines, targets, sendPc, exitPc) ==
  IF scanIdx >= Len(lines)
  THEN /\ startPc' = exitPc
       /\ UNCHANGED << scanIdx, pend >>
  ELSE /\ scanIdx' = scanIdx + 1
       /\ IF ctxDone
          THEN /\ startPc' = exitPc
               /\ pend' = <<>>
          ELSE /\ pend' = targets
               /\ startPc' = IF pend' = <<>> THEN startPc ELSE sendPc

\* wordChan <- busterTarget: it blocks while the buffer is full.
SendTarget(scanPc) ==
  /\ Len(wordChan) < WordChanCap(opts)
  /\ LET id == Len(enqueued) + 1
         bt == Head(pend)
     IN /\ wordChan' = Append(wordChan, [id |-> id, IsURL |-> bt.IsURL, Target |-> bt.Target])
        /\ enqueued' = Append(enqueued, bt)
        /\ processed' = Append(processed, 0)
        /\ outcome' = Append(outcome, <<>>)
        /\ resultsSeen' = Append(resultsSeen, <<>>)
        /\ errorsSeen' = Append(errorsSeen, 0)
  /\ pend' = Tail(pend)
  /\ startPc' = IF pend' = <<>> THEN scanPc ELSE startPc
  /\ UNCHANGED << inputVars, pluginVars, counterVars, ctxDone, wordChanClosed,
                  resultChanCloses, errorChanCloses, scanIdx, worker, workerGroup, consumerVars,
                  mainPc >>

\* result.go:461-481: the loop over the parsed wayback file, then
\* time.Sleep, which changes nothing.
StartWaybackScan ==
  /\ Running /\ startPc = "WaybackScan"
  /\ ScanLine(opts.WaybackParsed, WaybackTargets(opts.WaybackParsed[scanIdx + 1]),
              "WaybackSend", "GetWordlist")
  /\ UNCHANGED << inputVars, pluginVars, counterVars, ctxDone, chanVars, worker, workerGroup,
                  consumerVars, mainPc, historyVars >>

StartWaybackSend ==
  /\ Running /\ startPc = "WaybackSend"
  /\ SendTarget("WaybackScan")

\* result.go:485-488 and getWordlist for a wordlist file: "before" is a
\* failure to open or scan it, "after" a failure to rewind it.
StartGetWordlist ==
  /\ Running /\ startPc = "GetWordlist"
  /\ \E io \in {"ok", "before", "after"} :
       /\ IF io = "before"
          THEN UNCHANGED << requestsExpected, requestsIssued >>
          ELSE /\ requestsIssued' \in UnlockedReset(requestsIssued)
               /\ requestsExpected' = WordlistExpected(opts)
       /\ startPc' = IF io = "ok" THEN "WordScan" ELSE "returnedErr"
  /\ scanIdx' = 0
  /\ UNCHANGED << inputVars, pluginVars, errorCount, mu, ctxDone, chanVars, pend, worker,
                  workerGroup, consumerVars, mainPc, historyVars >>

\* result.go:490-525: the loop over the wordlist.
StartWordScan ==
  /\ Running /\ startPc = "WordScan"
  /\ \E exts \in Perms(opts.ExtensionsParsed) :
       ScanLine(opts.Wordlist, WordTargets(opts, opts.Wordlist[scanIdx + 1], exts),
                "WordSend", "Close")
  /\ UNCHANGED << inputVars, pluginVars, counterVars, ctxDone, chanVars, worker, workerGroup,
                  consumerVars, mainPc, historyVars >>

StartWordSend ==
  /\ Running /\ startPc = "WordSend"
  /\ SendTarget("WordScan")

\* A Start that closes wordChan and goes on to close the streams without
\* waiting for its workers.
StartCloseWordChanSkipWait ==
  /\ Running /\ startPc = "Close"
  /\ wordChanClosed' = TRUE
  /\ startPc' = "CloseResults"
  /\ UNCHANGED << inputVars, pluginVars, counterVars, ctxDone, wordChan, resultChanCloses,
                  errorChanCloses, scanIdx, pend, worker, workerGroup, consumerVars, mainPc,
                  historyVars >>

\* result.go:527: close(wordChan)
StartCloseWordChan ==
  /\ Running /\ startPc = "Close"
  /\ wordChanClosed' = TRUE
  /\ startPc' = "Wait"
  /\ UNCHANGED << inputVars, pluginVars, counterVars, ctxDone, wordChan, resultChanCloses,
                  errorChanCloses, scanIdx, pend, worker, workerGroup, consumerVars, mainPc,
                  historyVars >>

\* A Wait that does not wait.
WaitReturnsAtOnce == TRUE

\* sync.WaitGroup.Wait returns when the counter is zero.
WaitReturns == workerGroup = 0

\* result.go:528: workerGroup.Wait() returns when every worker called Done.
StartWait ==
  /\ Running /\ startPc = "Wait"
  /\ WaitReturns
  /\ startPc' = "CloseResults"
  /\ UNCHANGED << inputVars, pluginVars, counterVars, ctxDone, chanVars, scanIdx, pend,
                  worker, workerGroup, consumerVars, mainPc, historyVars >>

\* result.go:529: close(g.resultChan)
StartCloseResults ==
  /\ Running /\ startPc = "CloseResults"
  /\ resultChanCloses' = resultChanCloses + 1
  /\ startPc' = "CloseErrors"
  /\ UNCHANGED << inputVars, pluginVars, counterVars, ctxDone, wordChan, wordChanClosed,
                  errorChanCloses, scanIdx, pend, worker, workerGroup, consumerVars, mainPc,
                  historyVars >>

\* result.go:530-531: close(g.errorChan); return nil
StartCloseErrors ==
  /\ Running /\ startPc = "CloseErrors"
  /\ errorChanCloses' = errorChanCloses + 1
  /\ startPc' = "returnedNil"
  /\ UNCHANGED << inputVars, pluginVars, counterVars, ctxDone, wordChan, wordChanClosed,
                  resultChanCloses, scanIdx, pend, worker, workerGroup, consumerVars, mainPc,
                  historyVars >>

(***************************************************************************)
(* Gobuster.worker                                                         *)
(***************************************************************************)

\* result.go:204-205: the select takes <-g.context.Done(); the deferred
\* wg.Done() runs.
WorkerCancelled(w) ==
  /\ Running /\ w.pc = "select"
  /\ ctxDone
  /\ worker' = Move(w, Blocked("done"))
  /\ workerGroup' = workerGroup - 1
  /\ UNCHANGED << inputVars, pluginVars, counterVars, ctxDone, chanVars, producerVars,
                  consumerVars, mainPc, historyVars >>

\* A receive that leaves the target in the buffer.
DequeueKeep(q) == [bt |-> Head(q), rest |-> q]

\* The target a receive from wordChan hands to the worker, and what stays in
\* the buffer.
Dequeue(q) == [bt |-> Head(q), rest |-> Tail(q)]

\* result.go:206-211: the select takes a target from wordChan; the worker
\* goes on to incrementRequests.
WorkerReceive(w) ==
  /\ Running /\ w.pc = "select"
  /\ wordChan # <<>>
  /\ LET d == Dequeue(wordChan)
     IN /\ wordChan' = d.rest
        /\ worker' = Move(w, [pc |-> "incrementRequests", bt |-> d.bt,
                                 doomed |-> FALSE, res |-> <<>>, agent |-> <<>>])
        /\ processed' = [processed EXCEPT ![d.bt.id] = @ + 1]
  /\ UNCHANGED << inputVars, pluginVars, counterVars, ctxDone,
                  wordChanClosed, resultChanCloses, errorChanCloses, producerVars,
                  workerGroup, consumerVars, mainPc, enqueued, outcome, resultsSeen,
                  errorsSeen >>

\* result.go:140: g.mu.Lock() of incrementRequests.
WorkerLock(w) ==
  /\ Running /\ w.pc = "incrementRequests"
  /\ mu = "free"
  /\ mu' = "worker"
  /\ worker' = Move(w, [w EXCEPT !.pc = "incrementLocked"])
  /\ UNCHANGED << inputVars, pluginVars, requestsExpected, requestsIssued, errorCount,
                  ctxDone, chanVars, producerVars, workerGroup, consumerVars, mainPc,
                  historyVars >>

\* The agents Process may put into g.HTTP.UserAgent (part_001:141-145):
\* any of the list, or the one in place when there is no list.
AgentChoices(o, current) ==
  IF Len(o.RandomAgentParsed) > 0
  THEN {o.RandomAgentParsed[i] : i \in 1..Len(o.RandomAgentParsed)}
  ELSE {current}

\* result.go:141-142 and 213, part_001:123-145: the counter is incremented
\* and the lock released; plugin.Process is called and, with a list of
\* random agents, puts one of them into the HTTP client all workers share.
\* Its GET carries the context: it fails at once when the context is
\* cancelled already.
WorkerIncrement(w) ==
  /\ Running /\ w.pc = "incrementLocked"
  /\ requestsIssued' = requestsIssued + 1
  /\ mu' = "free"
  /\ \E a \in AgentChoices(opts, userAgent) :
       /\ userAgent' = a
       /\ worker' = Move(w, [w EXCEPT !.pc = "process", !.doomed = ctxDone, !.agent = a])
  /\ UNCHANGED << inputVars, wildcard, requestsExpected, errorCount, ctxDone, chanVars,
                  producerVars, workerGroup, consumerVars, mainPc, historyVars >>

\* result.go:206-210: wordChan is closed and drained; the worker returns.
WorkerClosed(w) ==
  /\ Running /\ w.pc = "select"
  /\ wordChan = <<>> /\ wordChanClosed
  /\ worker' = Move(w, Blocked("done"))
  /\ workerGroup' = workerGroup - 1
  /\ UNCHANGED << inputVars, pluginVars, counterVars, ctxDone, chanVars, producerVars,
                  consumerVars, mainPc, historyVars >>

\* What client.Do returns for a request whose context is cancelled.
Cancelled == [err |-> TRUE, Status |-> 0, Content |-> <<>>, RedirectURL |-> <<>>]

\* A worker that drops the Results of Process.
AfterProcessDrop(ret) == IF ret.err THEN "sendErr" ELSE "select"

\* Where the worker goes with what plugin.Process returned (result.go:214-222).
AfterProcess(ret) ==
  IF ret.err THEN "sendErr" ELSE IF ret.res = <<>> THEN "select" ELSE "sendRes"

\* The User-Agent header makeRequest gives a request when the client's
\* UserAgent is current (part_000:83-87).
RequestUserAgent(current) == IF current # <<>> THEN current ELSE <<"gobuster">>

\* result.go:213: makeRequest sends the GET, with the User-Agent the client
\* holds, and plugin.Process returns.  A request in flight when the context
\* is cancelled is aborted or completes.
WorkerProcess(w) ==
  /\ Running /\ w.pc = "process"
  /\ \E aborted \in BOOLEAN :
       /\ aborted => ctxDone
       /\ w.doomed => aborted
       /\ LET bt == w.bt
              resp == IF aborted THEN Cancelled ELSE Transport(ProcessURL(opts, bt))
              ret == Process(opts, bt, resp)
          IN /\ worker' = Move(w, IF AfterProcess(ret) = "select" THEN Blocked("select")
                                      ELSE [w EXCEPT !.pc = AfterProcess(ret),
                                                     !.res = ret.res,
                                                     !.doomed = FALSE,
                                                     !.agent = <<>>])
             /\ outcome' = [outcome EXCEPT ![bt.id] = Append(@, ret)]
  /\ UNCHANGED << inputVars, pluginVars, counterVars, ctxDone, chanVars, producerVars,
                  workerGroup, consumerVars, mainPc, enqueued, processed, resultsSeen,
                  errorsSeen >>

\* A worker that returns after its error was taken.
AfterErrorReturn == "done"

\* Where the worker goes once errorWorker took its error (result.go:216-217).
AfterError == "select"

\* result.go:216-217 and main.go:165: g.errorChan <- err meets the receive of
\* errorWorker (the channel has no buffer); the worker continues its loop.
WorkerSendError(w) ==
  /\ Running /\ w.pc = "sendErr"
  /\ errorWorkerPc = "recv" /\ errorChanCloses = 0
  /\ worker' = Move(w, Blocked(AfterError))
  /\ errorWorkerPc' = "IncrementErrorCount"
  /\ errorsSeen' = [errorsSeen EXCEPT ![w.bt.id] = @ + 1]
  /\ UNCHANGED << inputVars, pluginVars, counterVars, ctxDone, chanVars, producerVars,
                  workerGroup, resultWorkerPc, mainPc, enqueued, processed, outcome,
                  resultsSeen >>

\* result.go:219-221 and main.go:121-160: g.resultChan <- r meets the receive
\* of resultWorker, which renders the Result and writes the lines.
WorkerSendResult(w) ==
  /\ Running /\ w.pc = "sendRes"
  /\ resultWorkerPc = "recv" /\ resultChanCloses = 0
  /\ LET r == Head(w.res)
         rest == Tail(w.res)
     IN /\ worker' = Move(w, IF rest = <<>> THEN Blocked("select")
                              ELSE [w EXCEPT !.res = rest])
        /\ resultsSeen' = [resultsSeen EXCEPT ![w.bt.id] = Append(@, r)]
  /\ UNCHANGED << inputVars, pluginVars, counterVars, ctxDone, chanVars, producerVars,
                  workerGroup, consumerVars, mainPc, enqueued, processed, outcome,
                  errorsSeen >>

(***************************************************************************)
(* main: errorWorker, resultWorker, the signal handler, and main itself    *)
(***************************************************************************)

\* result.go:147 and 156: g.mu.Lock() of IncrementErrorCount and of
\* DecrementRequests.
ErrorWorkerLock ==
  /\ Running /\ errorWorkerPc \in {"IncrementErrorCount", "DecrementRequests"}
  /\ mu = "free"
  /\ mu' = "errorWorker"
  /\ errorWorkerPc' = IF errorWorkerPc = "IncrementErrorCount"
                      THEN "IncrementErrorCountLocked" ELSE "DecrementRequestsLocked"
  /\ UNCHANGED << inputVars, pluginVars, requestsExpected, requestsIssued, errorCount,
                  ctxDone, chanVars, producerVars, worker, workerGroup, resultWorkerPc,
                  mainPc, historyVars >>

\* main.go:166 and result.go:157-158
ErrorWorkerIncrement ==
  /\ Running /\ errorWorkerPc = "IncrementErrorCountLocked"
  /\ errorCount' = errorCount + 1
  /\ mu' = "free"
  /\ errorWorkerPc' = "DecrementRequests"
  /\ UNCHANGED << inputVars, pluginVars, requestsExpected, requestsIssued, ctxDone,
                  chanVars, producerVars, worker, workerGroup, resultWorkerPc, mainPc,
                  historyVars >>

\* main.go:167 and result.go:148-151
ErrorWorkerDecrement ==
  /\ Running /\ errorWorkerPc = "DecrementRequestsLocked"
  /\ requestsIssued' = IF requestsIssued > 0 THEN requestsIssued - 1 ELSE requestsIssued
  /\ mu' = "free"
  /\ errorWorkerPc' = "recv"
  /\ UNCHANGED << inputVars, pluginVars, requestsExpected, errorCount, ctxDone,
                  chanVars, producerVars, worker, workerGroup, resultWorkerPc, mainPc,
                  historyVars >>

\* main.go:165: the range over g.Errors() ends when the channel is closed.
ErrorWorkerDone ==
  /\ Running /\ errorWorkerPc = "recv"
  /\ errorChanCloses > 0
  /\ errorWorkerPc' = "done"
  /\ UNCHANGED << inputVars, pluginVars, counterVars, ctxDone, chanVars, producerVars,
                  worker, workerGroup, resultWorkerPc, mainPc, historyVars >>

\* main.go:121: the range over g.Results() ends when the channel is closed.
ResultWorkerDone ==
  /\ Running /\ resultWorkerPc = "recv"
  /\ resultChanCloses > 0
  /\ resultWorkerPc' = "done"
  /\ UNCHANGED << inputVars, pluginVars, counterVars, ctxDone, chanVars, producerVars,
                  worker, workerGroup, errorWorkerPc, mainPc, historyVars >>

\* main.go:281-289: the interrupt signal arrives and the handler calls cancel().
Interrupt ==
  /\ Running /\ ~ctxDone
  /\ ctxDone' = TRUE
  /\ UNCHANGED << inputVars, pluginVars, counterVars, chanVars, producerVars, worker,
                  workerGroup, consumerVars, mainPc, historyVars >>

\* main.go:300-305: Start returned nil; main calls cancel() and waits for
\* errorWorker and resultWorker.
MainCancel ==
  /\ mainPc = "Start" /\ startPc = "returnedNil"
  /\ ctxDone' = TRUE
  /\ mainPc' = "Wait"
  /\ UNCHANGED << inputVars, pluginVars, counterVars, chanVars, producerVars, worker,
                  workerGroup, consumerVars, historyVars >>

\* main.go:306-315: wg.Wait() returns and main ends.
MainWait ==
  /\ mainPc = "Wait"
  /\ errorWorkerPc = "done" /\ resultWorkerPc = "done"
  /\ mainPc' = "finished"
  /\ UNCHANGED << inputVars, pluginVars, counterVars, ctxDone, chanVars, producerVars,
                  worker, workerGroup, consumerVars, historyVars >>

\* main.go:300-301 and 309-315: Start returned an error; main logs it and
\* ends, and the process with it.
MainError ==
  /\ mainPc = "Start" /\ startPc = "returnedErr"
  /\ mainPc' = "finished"
  /\ UNCHANGED << inputVars, pluginVars, counterVars, ctxDone, chanVars, producerVars,
                  worker, workerGroup, consumerVars, historyVars >>

\* A step of the program: of Start, a worker, a consumer or main.
ProgramStep ==
  \/ StartSetup
  \/ StartSpawn
  \/ StartGetWaybackUrls
  \/ StartWaybackScan
  \/ StartWaybackSend
  \/ StartGetWordlist
  \/ StartWordScan
  \/ StartWordSend
  \/ StartCloseWordChan
  \/ StartWait
  \/ StartCloseResults
  \/ StartCloseErrors
  \/ \E w \in Workers : WorkerCancelled(w)
  \/ \E w \in Workers : WorkerReceive(w)
  \/ \E w \in Workers : WorkerLock(w)
  \/ \E w \in Workers : WorkerIncrement(w)
  \/ \E w \in Workers : WorkerClosed(w)
  \/ \E w \in Workers : WorkerProcess(w)
  \/ \E w \in Workers : WorkerSendError(w)
  \/ \E w \in Workers : WorkerSendResult(w)
  \/ ErrorWorkerLock
  \/ ErrorWorkerIncrement
  \/ ErrorWorkerDecrement
  \/ ErrorWorkerDone
  \/ ResultWorkerDone
  \/ MainCancel
  \/ MainWait
  \/ MainError

Next == ProgramStep \/ Interrupt

Spec == Init /\ [][Next]_vars

\* Go schedules every goroutine that can run: a step of the program that
\* stays possible is eventually taken.  Nothing makes the signal arrive.
FairSpec == Spec /\ WF_vars(ProgramStep)

(***************************************************************************)
(* Calibration and classification on their own: Setup against a server     *)
(* that answers the four calibration requests in any of the ways below,    *)
(* then ResultToString on a Result.                                        *)
(***************************************************************************)

Statuses == {200, 404}

\* The bodies a server answers a request for url with: a page with a title,
\* the same title in a longer page, another title, a page that repeats the
\* URL, a page that repeats only what follows the base URL.
BodyKinds == {"title", "padded", "other", "url", "path"}

Body(kind, base, url) ==
  CASE kind = "title" -> <<"<title>", "N", "</title>">>
    [] kind = "padded" -> <<"<title>", " ", "N", "</title>", "x">>
    [] kind = "other" -> <<"<title>", "M", "</title>">>
    [] kind = "url" -> <<"a">> \o url
    [] kind = "path" -> <<"a">> \o SubSeq(url, Len(base) + 1, Len(url))

Bodies(base, url) == {Body(kind, base, url) : kind \in BodyKinds}

Answers(base, url) ==
  {[err |-> FALSE, Status |-> st, Content |-> b, RedirectURL |-> <<>>] :
     st \in Statuses, b \in Bodies(base, url)}

\* The Results whose rendering is checked: a file and a directory of the
\* target, with any status and body.
ClassifiedTargets == {[IsURL |-> FALSE, Target |-> <<"x">>], [IsURL |-> FALSE, Target |-> <<"x", "/">>]}

ClassifiedResults(o) ==
  UNION {{Process(o, bt, resp).res[1] : resp \in Answers(o.URL, ProcessURL(o, bt))} :
           bt \in ClassifiedTargets}

InitClassify ==
  /\ opts = Options(1, FALSE, << <<"admin">> >>, <<>>)
  /\ probes \in {p \in [ProbeNames -> UNION {Answers(opts.URL, ProbeURL(opts.URL, n)) : n \in ProbeNames}] :
                   \A n \in ProbeNames : p[n] \in Answers(opts.URL, ProbeURL(opts.URL, n))}
  /\ wildcard = NoWildcard
  /\ requestsExpected = 0
  /\ requestsIssued = 0
  /\ errorCount = 0
  /\ mu = "free"
  /\ userAgent = opts.UserAgent
  /\ ctxDone = FALSE
  /\ wordChan = <<>>
  /\ wordChanClosed = FALSE
  /\ resultChanCloses = 0
  /\ errorChanCloses = 0
  /\ startPc = "Setup"
  /\ scanIdx = 0
  /\ pend = <<>>
  /\ worker = EmptyBag
  /\ workerGroup = 0
  /\ errorWorkerPc = "recv"
  /\ resultWorkerPc = "recv"
  /\ mainPc = "Start"
  /\ enqueued = <<>>
  /\ processed = <<>>
  /\ outcome = <<>>
  /\ resultsSeen = <<>>
  /\ errorsSeen = <<>>
  /\ call = NoCall

\* A ResultToString that stored the status of the Result it rendered as the
\* calibration status.
CallResultToStringStoring ==
  /\ startPc = "Spawn" /\ ~call.made
  /\ \E r \in ClassifiedResults(opts) :
       /\ call' = [made |-> TRUE, r |-> r, ret |-> ResultToString(wildcard, opts, r)]
       /\ wildcard' = [wildcard EXCEPT !.WildcardStatusCode = <<r.Status>>]
  /\ UNCHANGED << opts, probes, userAgent, counterVars, ctxDone, chanVars, producerVars,
                  worker, workerGroup, consumerVars, mainPc, historyVars >>

\* r.ToString(g) (result.go:14-21) on a Result, after a Setup that succeeded.
CallResultToString ==
  /\ startPc = "Spawn" /\ ~call.made
  /\ \E r \in ClassifiedResults(opts) :
       call' = [made |-> TRUE, r |-> r, ret |-> ResultToString(wildcard, opts, r)]
  /\ UNCHANGED << opts, probes, pluginVars, counterVars, ctxDone, chanVars, producerVars,
                  worker, workerGroup, consumerVars, mainPc, historyVars >>

NextClassify == StartSetup \/ CallResultToString

SpecClassify == InitClassify /\ [][NextClassify]_vars

\* The scheduler before Start is called.
SchedulerIdle ==
  /\ wildcard = NoWildcard
  /\ requestsExpected = 0 /\ requestsIssued = 0 /\ errorCount = 0
  /\ mu = "free" /\ userAgent = opts.UserAgent
  /\ ctxDone = FALSE
  /\ wordChan = <<>> /\ wordChanClosed = FALSE
  /\ resultChanCloses = 0 /\ errorChanCloses = 0
  /\ startPc = "Setup" /\ scanIdx = 0 /\ pend = <<>>
  /\ worker = EmptyBag /\ workerGroup = 0
  /\ errorWorkerPc = "recv" /\ resultWorkerPc = "recv" /\ mainPc = "Start"
  /\ enqueued = <<>> /\ processed = <<>> /\ outcome = <<>>
  /\ resultsSeen = <<>> /\ errorsSeen = <<>>
  /\ call = NoCall

\* The options that decide what ResultToString writes: -v, -x and -xs.
RenderOptions ==
  {[Options(1, FALSE, << <<"admin">> >>, <<>>) EXCEPT
      !.Verbose = v[1], !.ExcludedStatusCodesParsed = v[2], !.ExcludeString = v[3]] :
     v \in BOOLEAN \X {{}, {200}} \X {<<>>, <<"x">>}}

\* Rendering under every combination of these options, against a server
\* that answers both probes of a scope in the same way.
InitRender ==
  /\ opts \in RenderOptions
  /\ \E kf \in BodyKinds, kd \in BodyKinds, sf \in Statuses, sd \in Statuses :
       probes = [n \in ProbeNames |->
                   [err |-> FALSE,
                    Status |-> IF n \in {"File16", "File8"} THEN sf ELSE sd,
                    Content |-> Body(IF n \in {"File16", "File8"} THEN kf ELSE kd,
                                     opts.URL, ProbeURL(opts.URL, n)),
                    RedirectURL |-> <<>>]]
  /\ SchedulerIdle

SpecRender == InitRender /\ [][NextClassify]_vars

(***************************************************************************)
(* The dedup engine on its own: parseWaybackUrls on a wayback file, then   *)
(* on the file it wrote.                                                   *)
(***************************************************************************)

\* The lines of the wayback files: a page with one or two query keys and
\* with none, the other scheme and the other host, assets of a directory
\* with and without a query, the directory itself, a line url.Parse rejects,
\* an asset name in a query value, a directory named like an asset, and an
\* asset at the root.
DedupURLs ==
  { <<"http://h/", "s", "?", "k", "=", "1">>,
    <<"http://h/", "s", "?", "k", "=", "2">>,
    <<"http://h/", "s", "?", "k", "=", "1", "&", "m", "=", "2">>,
    <<"http://h/", "s", "?", "m", "=", "1">>,
    <<"http://h/", "s">>,
    <<"https://h/", "i", "/">>,
    <<"http://g/", "s">>,
    <<"http://h/", "i", "/", "p", ".jpg">>,
    <<"http://h/", "i", "/", "q", ".css">>,
    <<"http://h/", "i", "/", "p", ".jpg", "?", "k", "=", "1">>,
    <<"http://h/", "i", "/">>,
    <<"http://h/", "%zz">>,
    <<"http://h/", "s", "?", "k", "=", "p", ".jpg">>,
    <<"http://h/", "i", ".css", "/", "p", ".jpg">>,
    <<"http://h/", "p", ".jpg">> }

\* The wayback files of up to MaxCorpus lines, a line possibly repeated,
\* with their lines in descending order: sort.Strings has to reverse them.
Corpora ==
  UNION {{lines \in [1..n -> DedupURLs] :
            \A i, j \in 1..n : i < j => ~StringLess(lines[i], lines[j])} : n \in 1..MaxCorpus}

InitDedup ==
  /\ opts \in {Options(1, FALSE, << <<"admin">> >>, lines) : lines \in Corpora}
  /\ probes = [n \in ProbeNames |->
                 [err |-> FALSE, Status |-> 404, Content |-> NotFoundPage, RedirectURL |-> <<>>]]
  /\ SchedulerIdle

\* g.parseWaybackUrls() (result.go:271) on the wayback file of the options:
\* it fails when the file cannot be opened, read or written back
\* (result.go:309-330, 417-430), and writes uniqueUrls otherwise.
CallParseWaybackUrls ==
  /\ ~call.made
  /\ \E failed \in BOOLEAN :
       call' = [made |-> TRUE, pass |-> 1, lines |-> opts.WaybackUrls, err |-> failed,
                out |-> IF failed THEN <<>> ELSE ParseWaybackUrls(opts.WaybackUrls)]
  /\ UNCHANGED << opts, probes, pluginVars, counterVars, ctxDone, chanVars, producerVars,
                  worker, workerGroup, consumerVars, mainPc, historyVars >>

\* A second run of parseWaybackUrls, on the file the first one wrote.
CallParseWaybackUrlsAgain ==
  /\ call.made /\ call.pass = 1 /\ ~call.err
  /\ call' = [made |-> TRUE, pass |-> 2, lines |-> call.out, err |-> FALSE,
              out |-> ParseWaybackUrls(call.out)]
  /\ UNCHANGED << opts, probes, pluginVars, counterVars, ctxDone, chanVars, producerVars,
                  worker, workerGroup, consumerVars, mainPc, historyVars >>

NextDedup == CallParseWaybackUrls \/ CallParseWaybackUrlsAgain

SpecDedup == InitDedup /\ [][NextDedup]_vars

(***************************************************************************)
(* Runs under other options                                                *)
(***************************************************************************)

\* Runs with a list of random agents (-random-agent): two workers, a wayback
\* file, and a wordlist of a word the server knows and one whose request
\* fails.
AgentOptions ==
  {[Options(2, FALSE, << <<"admin">>, <<"down">> >>, wb) EXCEPT
      !.RandomAgentParsed = << <<"agentA">>, <<"agentB">> >>] : wb \in WaybackFiles}

InitAgents ==
  /\ opts \in AgentOptions
  /\ probes = [n \in ProbeNames |-> Transport(ProbeURL(opts.URL, n))]
  /\ SchedulerIdle

SpecAgents == InitAgents /\ [][Next]_vars

\* Runs with none to MaxExts extensions (-x), with and without the blank
\* extension (-b), over wordlists in which a word with the placeholder
\* stands before or after a plain word, with and without a wayback file.
ExtensionNames == <<"php", "txt", "bak">>

ExtensionSets ==
  {{ExtensionNames[i] : i \in 1..n} : n \in {m \in 0..MaxExts : m <= Len(ExtensionNames)}}

PlaceholderWordlists ==
  { << <<"p", ".", "%EXT%">>, <<"admin">> >>,
    << <<"down">>, <<" ", "p", "%EXT%">>, <<"q", ".", "%EXT%">> >> }

ExpandOptions ==
  {[Options(1, c[1], wl, wb) EXCEPT !.ExtensionsParsed = c[2]] :
     c \in BOOLEAN \X ExtensionSets, wl \in PlaceholderWordlists,
     wb \in {<<>>, << <<"http://h/", "old">> >>}}

InitExpand ==
  /\ opts \in ExpandOptions
  /\ probes = [n \in ProbeNames |-> Transport(ProbeURL(opts.URL, n))]
  /\ SchedulerIdle

SpecExpand == InitExpand /\ [][Next]_vars

\* options.go:76-78: validate refuses a negative number of threads and no
\* other.
ValidThreads(t) == ~(t < 0)

\* Runs with every number of threads up to MaxThreads that validate lets
\* through, over a wordlist of a word the server knows and one whose
\* request fails, with and without a wayback file.
AcceptedOptions ==
  {Options(t, FALSE, << <<"admin">>, <<"down">> >>, wb) :
     t \in {n \in -1..MaxThreads : ValidThreads(n)},
     wb \in {<<>>, << <<"http://h/", "old">> >>}}

InitAccepted ==
  /\ opts \in AcceptedOptions
  /\ probes = [n \in ProbeNames |-> Transport(ProbeURL(opts.URL, n))]
  /\ SchedulerIdle

FairSpecAccepted == InitAccepted /\ [][Next]_vars /\ WF_vars(ProgramStep)

(***************************************************************************)
(* Properties of the scheduler                                             *)
(***************************************************************************)

RECURSIVE SumFirst(_, _)
\* s[1] + ... + s[n]
SumFirst(s, n) == IF n = 0 THEN 0 ELSE s[n] + SumFirst(s, n - 1)

\* The targets sent into wordChan so far, by their position in the history.
Ids == 1..Len(enqueued)

ResultsReceived == SumFirst([id \in Ids |-> Len(resultsSeen[id])], Len(enqueued))
ErrorsReceived == SumFirst(errorsSeen, Len(enqueued))
ProcessCalls == SumFirst(processed, Len(enqueued))

\* Start has returned nil and no signal arrived while it ran: main's own
\* cancel() comes after the return and moves main to its wait.
CompletedUncancelled == startPc = "returnedNil" /\ ~ctxDone

\* How many workers are at pc.
WorkersAt(pc) == BagCardinality([ws \in {x \in Workers : x.pc = pc} |-> worker[ws]])

\* The targets whose Process call has not returned yet.
NoOutcomeYet == {id \in Ids : outcome[id] = <<>>}

\* C1: while no cancellation was signalled, no enqueued candidate is passed
\* to plugin.Process more than once, and when Start has returned every
\* enqueued candidate was passed to Process exactly once and the Results
\* received plus the errors received number as many as the calls of Process.
C1_ProcessedExactlyOnce ==
  ~ctxDone =>
    /\ \A id \in Ids : processed[id] <= 1 /\ Len(outcome[id]) <= processed[id]
    /\ startPc = "returnedNil" =>
         /\ \A id \in Ids : processed[id] = 1 /\ Len(outcome[id]) = 1
         /\ ResultsReceived + ErrorsReceived = ProcessCalls

C1_Witness ==
  /\ CompletedUncancelled
  /\ opts.Threads = 2
  /\ Len(enqueued) >= 3
  /\ ResultsReceived >= 1
  /\ ErrorsReceived >= 1

\* The order of an uncancelled termination, as a predicate on states.
TerminationOrder ==
  /\ wordChanClosed =>
       /\ startPc \notin {"WaybackScan", "WaybackSend", "GetWordlist", "WordScan", "WordSend"}
       /\ scanIdx = Len(opts.Wordlist)
       /\ pend = <<>>
  /\ WorkersAt("done") > 0 => wordChanClosed /\ wordChan = <<>>
  /\ (resultChanCloses > 0 \/ errorChanCloses > 0) =>
       /\ wordChanClosed
       /\ WorkersAt("done") = opts.Threads
       /\ \A id \in Ids :
            /\ Len(outcome[id]) = 1
            /\ Len(resultsSeen[id]) + errorsSeen[id] = 1
  /\ errorChanCloses > 0 => resultChanCloses > 0

\* C2: a run in which no cancellation is signalled reaches the return of
\* Start; and while none is signalled, wordChan is closed only after the last
\* line was read and its targets sent, a worker returns only after that and
\* with the queue empty, and the streams are closed only when all Threads
\* workers have returned and every target's outcome was delivered.
C2_TerminatesInOrder ==
  /\ <>(ctxDone \/ startPc \in {"returnedNil", "returnedErr"})
  /\ [](~ctxDone => TerminationOrder)

C2_Witness ==
  /\ CompletedUncancelled
  /\ opts.Threads = 2
  /\ Len(enqueued) = 4
  /\ resultChanCloses = 1 /\ errorChanCloses = 1

\* The signal arrived while Start was reading the wordlist and targets
\* remain that were not sent.
CancelledWithCandidatesLeft ==
  /\ ctxDone /\ mainPc = "Start"
  /\ startPc \in {"WordScan", "WordSend"}
  /\ (scanIdx < Len(opts.Wordlist) \/ pend # <<>>)

\* C3: once cancellation is signalled while targets of the wordlist remain
\* unsent, the Result stream and the Error stream are both eventually closed.
C3_CancelClosesStreams ==
  CancelledWithCandidatesLeft ~> (resultChanCloses = 1 /\ errorChanCloses = 1)

\* The targets whose Process call returned an error.
Failed == {id \in Ids : outcome[id] # <<>> /\ outcome[id][1].err}

\* The worker that holds the error of target id, not yet taken.
HoldsError(id) == \E w \in Workers : w.pc = "sendErr" /\ w.bt.id = id

\* C4: a target whose Process call returned an error gets exactly one error
\* on the Error stream (none while the worker still holds it) and no Result,
\* and no error is received for any other target; the step that hands the
\* error over puts the worker back at its select, and neither it nor the
\* failing return of Process makes a worker return, closes a channel or moves
\* Start; a worker returns only on cancellation or when wordChan is closed.
C4_ErrorForwardedWorkerContinues ==
  /\ [](\A id \in Ids :
          /\ id \in Failed => /\ resultsSeen[id] = <<>>
                              /\ errorsSeen[id] = IF HoldsError(id) THEN 0 ELSE 1
          /\ id \notin Failed => errorsSeen[id] = 0)
  /\ [](WorkersAt("done") > 0 => ctxDone \/ wordChanClosed)
  /\ [][ErrorsReceived' > ErrorsReceived =>
          /\ WorkersAt("select")' = WorkersAt("select") + 1
          /\ WorkersAt("done")' = WorkersAt("done")
          /\ UNCHANGED << workerGroup, chanVars, producerVars >>]_vars
  /\ [][Cardinality(Failed') > Cardinality(Failed) =>
          /\ WorkersAt("sendErr")' = WorkersAt("sendErr") + 1
          /\ WorkersAt("done")' = WorkersAt("done")
          /\ UNCHANGED << workerGroup, chanVars, producerVars >>]_vars

\* One worker took a target after the error of the target before it.
C4_Witness ==
  /\ opts.Threads = 1
  /\ \E id \in Ids : id \in Failed /\ errorsSeen[id] = 1
                      /\ id + 1 \in Ids /\ processed[id + 1] = 1
  /\ ~ctxDone

\* C5: whenever Start has returned, close(g.resultChan) and
\* close(g.errorChan) have each been called exactly once.
C5_ClosedOnceAtReturn ==
  startPc \in {"returnedNil", "returnedErr"} =>
    resultChanCloses = 1 /\ errorChanCloses = 1

\* Start is past the spawning of the workers.
Spawned ==
  startPc \in {"GetWaybackUrls", "WaybackScan", "WaybackSend", "GetWordlist", "WordScan",
               "WordSend", "Close", "Wait", "CloseResults", "CloseErrors", "returnedNil"}

\* C6: once Start has spawned them there are exactly Threads workers; the
\* queue never holds more than Threads targets, never more than Threads
\* calls of Process are in progress, and never more than 2*Threads targets
\* are enqueued without an outcome.
C6_Bounded ==
  /\ Spawned => BagCardinality(worker) = opts.Threads
  /\ worker # EmptyBag => BagCardinality(worker) = opts.Threads
  /\ Len(wordChan) <= opts.Threads
  /\ WorkersAt("process") <= opts.Threads
  /\ Cardinality(NoOutcomeYet) <= 2 * opts.Threads

\* Two workers in Process and two targets waiting: the bound is met.
C6_Witness ==
  /\ opts.Threads = 2
  /\ Len(wordChan) = 2
  /\ WorkersAt("process") = 2
  /\ Cardinality(NoOutcomeYet) = 4

RECURSIVE Flatten(_)
\* The concatenation of a sequence of sequences.
Flatten(ss) == IF ss = <<>> THEN <<>> ELSE Head(ss) \o Flatten(Tail(ss))

\* A sequence as a multiset.
SeqToBag(s) ==
  [x \in {s[i] : i \in 1..Len(s)} |-> Cardinality({i \in 1..Len(s) : s[i] = x})]

\* The candidate list of a run: the targets of the parsed wayback file, then
\* those of the wordlist.
CandidateList(o) ==
  LET exts == CHOOSE q \in Perms(o.ExtensionsParsed) : TRUE
  IN Flatten([i \in 1..Len(o.WaybackParsed) |-> WaybackTargets(o.WaybackParsed[i])])
       \o Flatten([i \in 1..Len(o.Wordlist) |-> WordTargets(o, o.Wordlist[i], exts)])

\* What one worker working through the candidate list alone delivers.
SequentialOutcomes(o) ==
  [i \in 1..Len(CandidateList(o)) |->
     Process(o, CandidateList(o)[i], Transport(ProcessURL(o, CandidateList(o)[i])))]

SequentialResults(o) ==
  SeqToBag(Flatten([i \in 1..Len(CandidateList(o)) |-> SequentialOutcomes(o)[i].res]))

SequentialErrors(o) ==
  SeqToBag(SelectSeq(CandidateList(o),
                     LAMBDA bt : Process(o, bt, Transport(ProcessURL(o, bt))).err))

\* The Results resultWorker received, and the targets whose error
\* errorWorker received, as multisets.
DeliveredResults == SeqToBag(Flatten(resultsSeen))

DeliveredErrors ==
  SeqToBag(Flatten([id \in Ids |-> [k \in 1..errorsSeen[id] |-> enqueued[id]]]))

\* C7: an uncancelled run delivers, with any number of workers, the multiset
\* of Results and the multiset of errors that a single worker taking the
\* candidates one after the other delivers.
C7_SameMultisetForAnyThreads ==
  CompletedUncancelled =>
    /\ DeliveredResults = SequentialResults([opts EXCEPT !.Threads = 1])
    /\ DeliveredErrors = SequentialErrors([opts EXCEPT !.Threads = 1])

C7_Witness ==
  /\ CompletedUncancelled
  /\ opts.Threads = 2
  /\ Len(enqueued) = 4
  /\ BagCardinality(DeliveredResults) >= 2
  /\ BagCardinality(DeliveredErrors) >= 2
  /\ \E i, j \in Ids : i # j /\ enqueued[i] = enqueued[j]

(***************************************************************************)
(* Properties of the classification                                        *)
(***************************************************************************)

\* The scope of a Result: directory when its entity ends in "/".
Scope(r) == IF HasSuffix(r.Entity, <<"/">>) THEN "Dir" ELSE "File"

\* The answers to the two calibration requests of a scope.
Probe16(sc) == probes[IF sc = "Dir" THEN "Dir16" ELSE "File16"]
Probe8(sc) == probes[IF sc = "Dir" THEN "Dir8" ELSE "File8"]
Probe16URL(sc) == ProbeURL(opts.URL, IF sc = "Dir" THEN "Dir16" ELSE "File16")
Probe8URL(sc) == ProbeURL(opts.URL, IF sc = "Dir" THEN "Dir8" ELSE "File8")

\* The two probes of the scope returned the same status.
ScopeAgrees(sc) == Probe16(sc).Status = Probe8(sc).Status

\* What Setup stored for a scope.
ByTitle(sc) ==
  IF sc = "Dir" THEN wildcard.IsWildcardDirByTitle ELSE wildcard.IsWildcardFileByTitle
StoredTitle(sc) ==
  IF sc = "Dir" THEN wildcard.WildcardDirTitle ELSE wildcard.WildcardFileTitle
ByContentLength(sc) ==
  IF sc = "Dir" THEN wildcard.IsWildcardDirByContentLength
  ELSE wildcard.IsWildcardFileByContentLength
StoredLength(sc) ==
  IF sc = "Dir" THEN wildcard.WildcardDirContentLength
  ELSE wildcard.WildcardFileContentLength

\* The title of a Result's body, and the length of the body without the
\* Result's own URL.
HasTitle(r, t) == TitleMatches(r.Content) /\ CleanTitle(r.Content) = t
StrippedLength(r) ==
  StrLen(ReplaceAll(r.Content, IF r.IsEntityURL THEN r.Entity ELSE opts.URL \o r.Entity, <<>>))

\* C8: ResultToString classifies a Result as a false positive exactly when
\* the probes of its scope agreed on its status and its title is the stored
\* title, or its stripped length is the stored length, or neither a title
\* nor a length was stored for the scope.
C8_FalsePositiveIff ==
  call.made =>
    LET r == call.r
        sc == Scope(r)
    IN call.ret.isFalsePositive <=>
         /\ ScopeAgrees(sc) /\ r.Status = Probe16(sc).Status
         /\ \/ ByTitle(sc) /\ HasTitle(r, StoredTitle(sc))
            \/ ByContentLength(sc) /\ StrippedLength(r) = StoredLength(sc)
            \/ ~ByTitle(sc) /\ ~ByContentLength(sc)

\* C9: when the two probes of a scope returned the same status and the same
\* non-empty title T, a successful Setup has flagged the scope by title with
\* T and not by content length, and a Result of the scope with that status is
\* a false positive exactly when its title is T.
C9_ByTitle ==
  \A sc \in {"File", "Dir"} :
    LET T == CleanTitle(Probe16(sc).Content)
    IN (startPc = "Spawn" /\ ScopeAgrees(sc)
          /\ T # <<>> /\ T = CleanTitle(Probe8(sc).Content)) =>
         /\ ByTitle(sc) /\ StoredTitle(sc) = T /\ ~ByContentLength(sc)
         /\ (call.made /\ Scope(call.r) = sc /\ call.r.Status = Probe16(sc).Status) =>
              (call.ret.isFalsePositive <=> HasTitle(call.r, T))

\* C10: when the two probes of a scope returned the same status, titles that
\* do not match, and bodies of equal length L once the probe's own URL is
\* removed, a successful Setup has flagged the scope by content length with
\* L, and a Result of the scope with that status is a false positive exactly
\* when its body without its own URL has length L.
C10_ByContentLength ==
  \A sc \in {"File", "Dir"} :
    LET T16 == CleanTitle(Probe16(sc).Content)
        T8 == CleanTitle(Probe8(sc).Content)
        L == StrLen(ReplaceAll(Probe16(sc).Content, Probe16URL(sc), <<>>))
    IN (startPc = "Spawn" /\ ScopeAgrees(sc)
          /\ ~(T16 # <<>> /\ T16 = T8)
          /\ L = StrLen(ReplaceAll(Probe8(sc).Content, Probe8URL(sc), <<>>))) =>
         /\ ByContentLength(sc) /\ StoredLength(sc) = L
         /\ (call.made /\ Scope(call.r) = sc /\ call.r.Status = Probe16(sc).Status) =>
              (call.ret.isFalsePositive <=> StrippedLength(call.r) = L)

(***************************************************************************)
(* Properties of the dedup engine                                          *)
(***************************************************************************)

\* The elements of a sequence.
Range(s) == {s[i] : i \in 1..Len(s)}

\* A run of parseWaybackUrls on a wayback file has written its list.
Parsed == call.made /\ call.pass = 1 /\ ~call.err

\* What the engine compares two lines on.
Key(line) == << ParsedURL(line).Host, ParsedURL(line).Path, ParsedURL(line).Query >>

\* C13: the list parseWaybackUrls writes has no two entries of the same
\* host, asset-stripped path and set of query keys, whatever the file.
C13_NoEquivalentEntries ==
  Parsed => \A i, j \in 1..Len(call.out) :
              Key(call.out[i]) = Key(call.out[j]) => i = j

\* C14: the lines of a wayback file are collapsed into one entry exactly
\* when they have the same host, the same asset-stripped path and the same
\* set of query keys: the list has one entry for each such class, so that
\* lines which differ in the values alone share an entry, and lines whose
\* key sets differ, by inclusion or by a key, have an entry each.
C14_CollapseIffSameKey ==
  Parsed => Len(call.out) = Cardinality({Key(line) : line \in Range(call.lines)})

\* A file with two lines that differ in a value, collapsed, and a third line
\* with a key more, retained.
C14_Witness ==
  /\ Parsed /\ Len(call.lines) = 3 /\ Len(call.out) = 2
  /\ \E a, b, c \in Range(call.lines) :
       /\ a # b /\ Key(a) = Key(b) /\ Key(a)[3] # {}
       /\ Key(c)[1] = Key(a)[1] /\ Key(c)[2] = Key(a)[2]
       /\ Key(a)[3] \subseteq Key(c)[3] /\ Key(a)[3] # Key(c)[3]

\* C15: parseWaybackUrls on the list it wrote writes the same set of lines.
C15_Idempotent ==
  call.made /\ call.pass = 2 => Range(call.out) = Range(call.lines)

\* The final path segment of the line is a static asset.
IsAssetURL(line) ==
  /\ ~ParseFails(line) /\ Len(BeforeQuery(line)) > 2
  /\ BeforeQuery(line)[Len(BeforeQuery(line))] \in AssetExtensions
  /\ ~HasSlash(BeforeQuery(line)[Len(BeforeQuery(line)) - 1])

\* s up to its last "/".
Directory(s) ==
  SubSeq(s, 1, CHOOSE i \in 1..Len(s) : HasSlash(s[i]) /\ \A j \in (i + 1)..Len(s) : ~HasSlash(s[j]))

\* C16: a line whose final path segment is a static asset is compared on
\* its path without that segment, and is written without that segment and
\* the query after it; two assets of one directory with the same query
\* keys have one entry.
C16_AssetSegmentStripped ==
  Parsed => \A line \in {l \in Range(call.lines) : IsAssetURL(l)} :
              /\ ParsedURL(line).Path = Directory(URLPath(line))
              /\ ParsedURL(line).URL = Directory(BeforeQuery(line))
              /\ Cardinality({i \in 1..Len(UniqueOf(call.lines)) :
                                /\ UniqueOf(call.lines)[i].Host = URLHost(line)
                                /\ UniqueOf(call.lines)[i].Path = Directory(URLPath(line))
                                /\ UniqueOf(call.lines)[i].Query = QueryKeys(line)}) = 1

(***************************************************************************)
(* Properties of failures, of the rendering, and of cancellation           *)
(***************************************************************************)

\* Nothing of the enumeration has begun: no worker, no line read, no target
\* sent, no call of Process.
NothingStarted ==
  /\ worker = EmptyBag /\ workerGroup = 0
  /\ scanIdx = 0 /\ pend = <<>>
  /\ enqueued = <<>> /\ wordChan = <<>>
  /\ requestsIssued = 0

\* C11: Setup returns an error whenever the base request or one of the four
\* probes fails; while Start is in Setup nothing of the enumeration has begun,
\* and the step in which Setup fails takes Start to its error return with
\* still no worker, no line read, no target enqueued and no call of Process.
C11_SetupFailureAborts ==
  /\ [](\A failAt \in 1..5 : Setup(wildcard, opts.URL, probes, failAt).err)
  /\ [](startPc = "Setup" => NothingStarted)
  /\ [][startPc = "Setup" /\ startPc' # "Setup" =>
          /\ startPc' \in {"Spawn", "returnedErr"}
          /\ NothingStarted'
          /\ (startPc' = "Spawn" => Setup(wildcard, opts.URL, probes, 0).w = wildcard')]_vars

\* Setup failed at a request of the directory scope, after the file scope
\* was compared.
C11_Witness ==
  /\ startPc = "returnedErr"
  /\ NothingStarted
  /\ wildcard.IsWildcardFileByTitle
  /\ mainPc = "finished"

\* What filters the Result of the last call out.
CallExcluded == call.r.Status \in opts.ExcludedStatusCodesParsed
CallHasExcludeString ==
  opts.ExcludeString # <<>> /\ Contains(call.r.Content, opts.ExcludeString)
CallFiltered == call.ret.isFalsePositive \/ CallExcluded \/ CallHasExcludeString

\* C12: ResultToString returns no error; for a filtered-out Result the
\* display line is empty with verbose off and, with verbose on, non-empty and
\* prefixed FALSE POSITIVE when the Result is a false positive and MISSED
\* otherwise; for a Result that passes the filters it is non-empty.
C12_DisplayLine ==
  call.made =>
    /\ ~call.ret.err
    /\ (CallFiltered /\ ~opts.Verbose) => call.ret.s = <<>>
    /\ (CallFiltered /\ opts.Verbose) =>
         /\ Len(call.ret.s) > 1
         /\ Head(call.ret.s) = Txt(IF call.ret.isFalsePositive
                                   THEN <<"FALSE POSITIVE">> ELSE <<"MISSED">>)
    /\ ~CallFiltered => call.ret.s # <<>>

\* A Result filtered by the exclude string alone, rendered in verbose mode.
C12_Witness ==
  /\ call.made /\ opts.Verbose
  /\ ~call.ret.isFalsePositive /\ ~CallExcluded /\ CallHasExcludeString
  /\ Head(call.ret.s) = Txt(<<"MISSED">>)

\* C17: when the wayback file cannot be opened, read, or written back
\* parsed, Start returns an error and no candidate, of the file or of the
\* wordlist, is enqueued or passed to Process: Start goes on from
\* getWaybackUrls only when the parsed file was counted, nothing was enqueued
\* or processed before, and nothing is after Start has returned an error.
C17_WaybackFailureAborts ==
  /\ [](startPc = "GetWaybackUrls" => enqueued = <<>> /\ wordChan = <<>> /\ ProcessCalls = 0)
  /\ [][startPc = "GetWaybackUrls" /\ startPc' # startPc =>
          \/ startPc' = "returnedErr"
          \/ /\ startPc' = "WaybackScan"
             /\ requestsExpected' = WaybackExpected(opts) /\ requestsExpected' > 0]_vars
  /\ [][startPc = "returnedErr" => startPc' = "returnedErr" /\ enqueued' = enqueued]_vars
  /\ [](startPc = "returnedErr" /\ enqueued = <<>> =>
          /\ wordChan = <<>> /\ pend = <<>> /\ ProcessCalls = 0
          /\ \A ws \in Workers : ws.bt = NoTarget)

\* Start has returned the error of getWaybackUrls: the workers were started,
\* nobody cancelled, and nothing was enqueued.
C17_Witness ==
  /\ startPc = "returnedErr" /\ opts.WaybackUrls # <<>>
  /\ workerGroup = opts.Threads
  /\ ~ctxDone /\ requestsExpected = 0
  /\ enqueued = <<>> /\ ProcessCalls = 0
  /\ mainPc = "finished"

\* C18: once the context is cancelled no worker takes a candidate from
\* wordChan, even when candidates wait in it.
C18_NoReceiveAfterCancel ==
  [][ctxDone /\ wordChan # <<>> => wordChan' # Dequeue(wordChan).rest]_vars

\* C19: a call of Process that started before the context was cancelled
\* returns what it returns in a run without cancellation.
C19_ProbeInFlightCompletes ==
  [][\A ws \in Workers :
       ws.pc = "process" /\ ~ws.doomed /\ Len(outcome'[ws.bt.id]) > Len(outcome[ws.bt.id]) =>
         outcome'[ws.bt.id][Len(outcome'[ws.bt.id])] =
           Process(opts, ws.bt, Transport(ProcessURL(opts, ws.bt)))]_vars

\* C20: over a run, the wayback phase and the wordlist phase, errorCount
\* never decreases, and requestsIssued decreases only by one, in the step of
\* errorWorker that follows an error.
C20_CountersMonotone ==
  [][/\ errorCount' >= errorCount
     /\ \/ requestsIssued' >= requestsIssued
        \/ /\ requestsIssued' = requestsIssued - 1
           /\ errorWorkerPc = "DecrementRequestsLocked" /\ errorWorkerPc' = "recv"]_vars

(***************************************************************************)
(* Properties of the shared state                                          *)
(***************************************************************************)

\* C21: once the workers are started, every write to requestsIssued and to
\* errorCount is made by the holder of g.mu, who releases it after the
\* write: no write is made without the lock, or while a worker holds it
\* for its own update.
C21_CountersWrittenUnderLock ==
  [][Spawned /\ (requestsIssued' # requestsIssued \/ errorCount' # errorCount) =>
       mu # "free" /\ mu' = "free"]_vars

\* C22: the wildcard signature is written only by Setup, Setup is over
\* before the first worker is started, and nothing writes the signature
\* afterwards.
C22_SignatureWrittenOnceBeforeWorkers ==
  /\ [][wildcard' # wildcard =>
          /\ startPc = "Setup" /\ startPc' # "Setup"
          /\ worker = EmptyBag /\ worker' = EmptyBag]_vars
  /\ [](startPc = "Setup" => wildcard = NoWildcard /\ worker = EmptyBag)
  /\ [][startPc # "Setup" => startPc' # "Setup" /\ wildcard' = wildcard]_vars

\* Workers in Process under a signature that Setup filled in.
C22_Witness ==
  /\ WorkersAt("process") = 2
  /\ wildcard.IsWildcardFileByTitle /\ wildcard.IsWildcardDirByTitle
  /\ wildcard = Setup(NoWildcard, opts.URL, probes, 0).w

\* C23: Process writes nothing the workers share, so the request of a
\* worker depends on its own candidate alone: a worker in Process sends its
\* request with the User-Agent its own call chose.
C23_RequestIsTheWorkersOwn ==
  \A ws \in Workers :
     ws.pc = "process" => RequestUserAgent(userAgent) = RequestUserAgent(ws.agent)

(***************************************************************************)
(* Properties of the calibration status                                    *)
(***************************************************************************)

\* Setup flagged the scope, by title or by content length.
Flagged(sc) == ByTitle(sc) \/ ByContentLength(sc)

\* The Result has what Setup stored for the scope: the title, or the length.
HasStored(r, sc) ==
  IF ByTitle(sc) THEN HasTitle(r, StoredTitle(sc))
  ELSE ByContentLength(sc) /\ StrippedLength(r) = StoredLength(sc)

\* C24: when Setup flagged both scopes and their probes returned different
\* statuses, a Result is compared with the status of the probes of its own
\* scope: it is a false positive exactly when it has that status and what
\* was stored for its scope.
C24_StatusPerScope ==
  (/\ call.made
   /\ ScopeAgrees("File") /\ ScopeAgrees("Dir")
   /\ Flagged("File") /\ Flagged("Dir")
   /\ Probe16("File").Status # Probe16("Dir").Status) =>
    (call.ret.isFalsePositive <=>
       /\ call.r.Status = Probe16(Scope(call.r)).Status
       /\ HasStored(call.r, Scope(call.r)))

\* C25: when the two probes of a scope returned different statuses, a
\* successful Setup has set no flag of the scope, and no Result of the scope
\* is a false positive, whatever was found for the other scope.
C25_DisagreeingScopeUnfiltered ==
  \A sc \in {"File", "Dir"} :
    (startPc = "Spawn" /\ ~ScopeAgrees(sc)) =>
      /\ ~ByTitle(sc) /\ ~ByContentLength(sc)
      /\ (call.made /\ Scope(call.r) = sc) => ~call.ret.isFalsePositive

\* The file probes disagree, the directory scope is flagged by title, and
\* a file Result has the stored status and the stored title.
C25_Witness ==
  /\ call.made /\ Scope(call.r) = "File"
  /\ ~ScopeAgrees("File")
  /\ ScopeAgrees("Dir") /\ ByTitle("Dir")
  /\ call.r.Status = wildcard.WildcardStatusCode[1]
  /\ HasTitle(call.r, StoredTitle("Dir"))
  /\ ~call.ret.isFalsePositive

(***************************************************************************)
(* Properties of rendering                                                 *)
(***************************************************************************)

\* C26: rendering a Result leaves the shared state as it was: the wildcard
\* signature, the options, the counters and their lock, the User-Agent of
\* the HTTP client; and the Result that was rendered is one that Process
\* produced, unaltered. This for every Result and every setting of -v, -x
\* and -xs.
C26_RenderingWritesNothing ==
  [][~call.made /\ call'.made =>
       /\ wildcard' = wildcard /\ opts' = opts /\ userAgent' = userAgent
       /\ requestsExpected' = requestsExpected /\ requestsIssued' = requestsIssued
       /\ errorCount' = errorCount /\ mu' = mu
       /\ call'.r \in ClassifiedResults(opts)
       /\ call'.ret = ResultToString(wildcard', opts', call'.r)]_vars

C26_Witness ==
  /\ call.made /\ opts.Verbose /\ opts.ExcludeString # <<>>
  /\ call.ret.isFalsePositive
  /\ wildcard = Setup(NoWildcard, opts.URL, probes, 0).w


(***************************************************************************)
(* Properties of the error accounting                                      *)
(***************************************************************************)

\* The targets whose Process call returned Results.
Succeeded == {id \in Ids : outcome[id] # <<>> /\ ~outcome[id][1].err}

\* C27: for every error errorWorker receives it adds one to errorCount and
\* takes one from requestsIssued; requestsIssued is never negative; and
\* when a run over a wordlist alone is over, errorCount is the number of
\* candidates whose Process call failed and requestsIssued the number of
\* those whose call succeeded.
C27_ErrorsAccounted ==
  /\ [][ErrorsReceived' > ErrorsReceived =>
          errorWorkerPc = "recv" /\ errorWorkerPc' = "IncrementErrorCount"]_vars
  /\ [][errorWorkerPc = "IncrementErrorCountLocked" /\ errorWorkerPc' # errorWorkerPc =>
          errorCount' = errorCount + 1 /\ errorWorkerPc' = "DecrementRequests"]_vars
  /\ [][errorWorkerPc = "DecrementRequestsLocked" /\ errorWorkerPc' # errorWorkerPc =>
          requestsIssued' = requestsIssued - 1]_vars
  /\ [](requestsIssued >= 0)
  /\ [](opts.WaybackUrls = <<>> /\ startPc = "returnedNil" /\ mainPc = "finished" =>
          /\ errorCount = Cardinality(Failed)
          /\ requestsIssued = Cardinality(Succeeded))

(***************************************************************************)
(* Properties of the expansion of words                                    *)
(***************************************************************************)

NotURL(bt) == ~bt.IsURL

\* The candidates sent from the wordlist, in the order they were sent.
WordCandidates == SelectSeq(enqueued, NotURL)

\* A line yields a candidate unless it is empty or a comment.
IsWord(line) == TrimSpace(line) # <<>> /\ ~HasPrefix(TrimSpace(line), <<"#">>)

HoldsPlaceholder(line) == Contains(TrimSpace(line), <<"%EXT%">>)

Blank == IF opts.BlankExtension THEN 1 ELSE 0

\* How many candidates a line is to yield.
CandidateCount(line) ==
  IF ~IsWord(line) THEN 0
  ELSE IF HoldsPlaceholder(line) THEN Cardinality(opts.ExtensionsParsed) + Blank
  ELSE 1

\* How many candidates the lines 1..n are to yield.
CandidatesBefore(n) == SumFirst([k \in 1..Len(opts.Wordlist) |-> CandidateCount(opts.Wordlist[k])], n)

\* C28: the candidates sent from the wordlist are, line after line, those
\* of the line: for a word with the placeholder, first the word without
\* ".%EXT%" when BlankExtension is set and only then, followed by the word
\* with each extension in the place of the placeholder, each extension once
\* (N+1, or N, candidates for N extensions); for a word without it, the word
\* alone.  No candidate of a line is sent before all of those of the lines
\* before it, and a scan that no cancellation has cut short sends them all.
C28_WordsExpandInOrder ==
  /\ Len(WordCandidates) <= CandidatesBefore(Len(opts.Wordlist))
  /\ \A i \in 1..Len(opts.Wordlist) :
       LET word == TrimSpace(opts.Wordlist[i])
           first == CandidatesBefore(i - 1) + 1
           last == CandidatesBefore(i)
           block == {k \in first..last : k <= Len(WordCandidates)}
       IN /\ \A k \in block :
               IF ~HoldsPlaceholder(opts.Wordlist[i])
               THEN WordCandidates[k].Target = word
               ELSE IF k = first /\ opts.BlankExtension
               THEN WordCandidates[k].Target = ReplaceAll(word, <<".", "%EXT%">>, <<>>)
               ELSE \E e \in opts.ExtensionsParsed :
                      WordCandidates[k].Target = ReplaceAll(word, <<"%EXT%">>, <<e>>)
          /\ \A k, l \in block :
               k # l /\ k >= first + Blank /\ l >= first + Blank =>
                 WordCandidates[k].Target # WordCandidates[l].Target
  /\ startPc \in {"Close", "Wait", "CloseResults", "CloseErrors", "returnedNil"} /\ ~ctxDone =>
       Len(WordCandidates) = CandidatesBefore(Len(opts.Wordlist))

\* A run with two extensions after which a word with the placeholder has
\* given three candidates and the plain word behind it one.
C28_Witness ==
  /\ startPc = "returnedNil" /\ ~ctxDone
  /\ opts.BlankExtension /\ Cardinality(opts.ExtensionsParsed) = 2
  /\ HoldsPlaceholder(opts.Wordlist[1])
  /\ Len(WordCandidates) = 4
  /\ WordCandidates[3].Target = <<"p", ".", "php">>

(***************************************************************************)
(* Properties of the return of Start                                       *)
(***************************************************************************)

\* C29: with any number of threads that validate accepts, a run in which no
\* cancellation is signalled and whose files can be read reaches the nil
\* return of Start with the Result stream and the Error stream closed.
C29_AcceptedThreadsTerminate ==
  <>(\/ ctxDone
     \/ startPc = "returnedErr"
     \/ startPc = "returnedNil" /\ resultChanCloses = 1 /\ errorChanCloses = 1)

\* C30: when Start has returned an error with its workers started, wordChan
\* has been closed and each stream closed once; and when main has ended
\* after it, every worker has returned and both consumers have seen the end
\* of their stream.
C30_ErrorReturnReleasesAll ==
  startPc = "returnedErr" /\ worker # EmptyBag =>
    /\ wordChanClosed
    /\ resultChanCloses = 1 /\ errorChanCloses = 1
    /\ mainPc = "finished" =>
         /\ WorkersAt("done") = opts.Threads
         /\ errorWorkerPc = "done" /\ resultWorkerPc = "done"

(***************************************************************************)
(* Properties of the channels                                              *)
(***************************************************************************)

\* Where Start is when it has no send into wordChan before it any more.
PastSending == startPc \in {"Wait", "CloseResults", "CloseErrors", "returnedNil"}

\* C31: no send meets a closed channel, with a cancellation at any moment
\* or none.  Once wordChan is closed Start is past its last send and sends
\* nothing more; once the Result stream or the Error stream is closed every
\* worker has returned, so none is at a send or can come to one; and no
\* target, Result or error is handed over on a channel that is closed.
C31_NoSendOnClosed ==
  /\ [](wordChanClosed => PastSending /\ pend = <<>>)
  /\ [](resultChanCloses > 0 \/ errorChanCloses > 0 =>
          /\ WorkersAt("done") = opts.Threads
          /\ workerGroup = 0)
  /\ [][enqueued' # enqueued => ~wordChanClosed /\ ~wordChanClosed']_vars
  /\ [][ResultsReceived' > ResultsReceived => resultChanCloses = 0 /\ resultChanCloses' = 0]_vars
  /\ [][ErrorsReceived' > ErrorsReceived => errorChanCloses = 0 /\ errorChanCloses' = 0]_vars
  /\ [][WorkersAt("done")' < WorkersAt("done") => FALSE]_vars

\* The signal arrived while Start ran; a target stayed in the queue; the
\* workers had delivered a Result and an error before all three channels
\* were closed.
C31_Witness ==
  /\ ctxDone /\ mainPc = "Start" /\ startPc = "returnedNil"
  /\ opts.Threads = 2
  /\ wordChan # <<>>
  /\ wordChanClosed /\ resultChanCloses = 1 /\ errorChanCloses = 1
  /\ ResultsReceived >= 1 /\ ErrorsReceived >= 1

(***************************************************************************)
(* Properties of the archive line                                          *)
(***************************************************************************)

\* C32: ResultToString returns an archive line that is not empty only for a
\* Result that passes the filters: not a false positive, its status not
\* excluded, the exclude string not in its content; verbose or not.
C32_ArchiveLineOnlyUnfiltered ==
  call.made /\ call.ret.as # <<>> => ~CallFiltered

(***************************************************************************)
(* Properties of the expected count                                        *)
(***************************************************************************)

\* C33: when the scan of the wordlist has ended with no cancellation
\* signalled, g.requestsExpected, as getWordlist set it, is the number of
\* candidates Start has sent from the wordlist.
C33_ExpectedIsEnqueued ==
  PastSending /\ ~ctxDone => requestsExpected = Len(WordCandidates)

(***************************************************************************)
(* Properties of the list of parsed URLs                                   *)
(***************************************************************************)

\* C34: the list of URLs parseWaybackUrls writes holds no string twice,
\* whatever the wayback file.
C34_NoIdenticalStrings ==
  Parsed => \A i, j \in 1..Len(call.out) : call.out[i] = call.out[j] => i = j

====
